---- MODULE Spec2Model ----
(***************************************************************************)
(* Model of the RAG question-answering core of the repository:             *)
(*   - services/citation_validator.py  (citation repair and validation)    *)
(*   - services/qa_engine.py, services/multi_doc_qa.py (retry loops)       *)
(*   - core/concurrency.py             (the LLM admission gate)            *)
(*   - services/multi_doc_qa.py        (multi-document retrieval)          *)
(*                                                                         *)
(* Text model.  An answer is a sequence of tokens.  Tokens are separated   *)
(* by one blank, except that a punctuation token is attached to the token  *)
(* before it, and a "pb" token is the paragraph break "\n\n" that stands   *)
(* in place of the blank.  A token is a record [k, s, e]:                  *)
(*   k = "text"     a block of s words holding no citation, no sentence    *)
(*                  punctuation at its end and no refusal phrase           *)
(*   k = "refusal"  a block of s words holding one of the refusal phrases  *)
(*   k = "pb"       a paragraph break                                      *)
(*   k = ".", "?"   a sentence punctuation character                       *)
(*   k = "Page"     the citation [Page s]      (e = s)                     *)
(*   k = "Pages"    the citation [Pages s-e]                               *)
(***************************************************************************)
EXTENDS Integers, Sequences, FiniteSets, TLC

\* ---------------------------------------------------------------- bounds
\* longest answer, in tokens, given to the validator
MaxLen == 3
MaxDocLen == 4
\* most exchanges a conversation holds
MaxExchanges == 2
\* most calls of resolve_followup on one question
MaxCalls == 2

\* ----------------------------------------------------------- text tokens
Tok(k, s, e) == [k |-> k, s |-> s, e |-> e]

\* pages a citation or a chunk may name
Pages == 1 .. 3

\* a paragraph of more than 10 words, and one of fewer
LongText == Tok("text", 11, 0)
ShortText == Tok("text", 3, 0)
Refusal == Tok("refusal", 4, 0)
ParaBreak == Tok("pb", 0, 0)
Dot == Tok(".", 0, 0)
Quest == Tok("?", 0, 0)
PageCite(p) == Tok("Page", p, p)
PagesCite(p, q) == Tok("Pages", p, q)

CiteTokens == {PageCite(p) : p \in Pages}
              \cup {PagesCite(p, q) : p \in Pages, q \in Pages}

InputCiteTokens == {PageCite(p) : p \in Pages}
                   \cup {t \in {PagesCite(p, q) : p \in Pages, q \in Pages} : t.s < t.e}

InputTokens == {LongText, ShortText, Refusal, ParaBreak, Dot, Quest} \cup InputCiteTokens

SeqsUpTo(S, n) == UNION {[1 .. m -> S] : m \in 0 .. n}

Answers == SeqsUpTo(InputTokens, MaxLen)

\* chunk contexts: identifier, owning document, content, page range
MkChunk(id, doc, ps, pe) ==
    [chunk_id |-> id, document_id |-> doc, content |-> id, page_start |-> ps, page_end |-> pe]

PageRanges == {r \in Pages \X Pages : r[1] <= r[2]}

\* chunk lists of 0, 1 or 2 chunks of one document; the chunk at position i has identifier i
ChunkLists ==
    {<<>>}
    \cup {<<MkChunk(1, 1, r[1], r[2])>> : r \in PageRanges}
    \cup {<<MkChunk(1, 1, r[1], r[2]), MkChunk(2, 1, q[1], q[2])>> : r \in PageRanges, q \in PageRanges}

\* ------------------------------------------------- citation_validator.py
\* CITATION_PATTERN
IsCitation(t) == t.k \in {"Page", "Pages"}

IsPunct(t) == t.k \in {".", "?", "!"}

\* \s : besides the blanks between tokens, the paragraph break
IsSpace(t) == t.k = "pb"

\* range(a, b + 1)
PyRange(a, b) == {p \in a .. b : TRUE}

SeqToSet(seq) == {seq[i] : i \in 1 .. Len(seq)}

RECURSIVE SortedSeq(_)
SortedSeq(S) ==
    IF S = {} THEN <<>>
    ELSE LET m == CHOOSE x \in S : \A y \in S : x <= y
         IN <<m>> \o SortedSeq(S \ {m})

RECURSIVE Flatten(_)
Flatten(ss) == IF ss = <<>> THEN <<>> ELSE Head(ss) \o Flatten(Tail(ss))

extract_citations(answer) ==
    LET cites == SelectSeq(answer, IsCitation)
    IN [i \in 1 .. Len(cites) |-> <<cites[i].s, cites[i].e>>]

\* mutant: range(page_start, page_end + 2), one page past the end of every chunk
get_valid_page_range_off_by_one(chunks) ==
    UNION {PyRange(chunks[i].page_start, chunks[i].page_end + 1) : i \in 1 .. Len(chunks)}

get_valid_page_range(chunks) ==
    UNION {PyRange(chunks[i].page_start, chunks[i].page_end) : i \in 1 .. Len(chunks)}

is_refusal_answer(answer) == \E i \in 1 .. Len(answer) : answer[i].k = "refusal"

remove_invalid_citations(answer, valid_pages) ==
    LET Keep(t) == ~IsCitation(t) \/ \A p \in PyRange(t.s, t.e) : p \in valid_pages
    IN SelectSeq(answer, Keep)

\* first position at or after i that holds no whitespace token (Len(a) + 1 if none)
RECURSIVE SkipSpace(_, _)
SkipSpace(a, i) ==
    IF i <= Len(a) /\ IsSpace(a[i]) THEN SkipSpace(a, i + 1) ELSE i

\* re.sub of "(CITE)\s*<ch>\s*CITE" by "\1<ch>", scanning from position i
RECURSIVE SubCiteAfterPunct(_, _, _)
SubCiteAfterPunct(a, ch, i) ==
    IF i > Len(a) THEN <<>>
    ELSE LET j == SkipSpace(a, i + 1)
             m == SkipSpace(a, j + 1)
         IN IF IsCitation(a[i]) /\ j <= Len(a) /\ a[j].k = ch /\ m <= Len(a) /\ IsCitation(a[m])
            THEN <<a[i], a[j]>> \o SubCiteAfterPunct(a, ch, m + 1)
            ELSE <<a[i]>> \o SubCiteAfterPunct(a, ch, i + 1)

\* re.sub of "[Page X]\s*[Page Y]" by "[Pages X-Y]"
RECURSIVE SubMergeSinglePages(_, _)
SubMergeSinglePages(a, i) ==
    IF i > Len(a) THEN <<>>
    ELSE LET j == SkipSpace(a, i + 1)
         IN IF a[i].k = "Page" /\ j <= Len(a) /\ a[j].k = "Page"
            THEN <<PagesCite(a[i].s, a[j].s)>> \o SubMergeSinglePages(a, j + 1)
            ELSE <<a[i]>> \o SubMergeSinglePages(a, i + 1)

\* re.sub of "(CITE)\s*(CITE)" by "\1"
RECURSIVE SubDropSecondCitation(_, _)
SubDropSecondCitation(a, i) ==
    IF i > Len(a) THEN <<>>
    ELSE LET j == SkipSpace(a, i + 1)
         IN IF IsCitation(a[i]) /\ j <= Len(a) /\ IsCitation(a[j])
            THEN <<a[i]>> \o SubDropSecondCitation(a, j + 1)
            ELSE <<a[i]>> \o SubDropSecondCitation(a, i + 1)

\* re.sub of "\s*(CITE)\s*([.!?])" by "\2 \1"
RECURSIVE SubCiteBeforePunct(_, _)
SubCiteBeforePunct(a, i) ==
    IF i > Len(a) THEN <<>>
    ELSE LET j == SkipSpace(a, i)
             m == SkipSpace(a, j + 1)
         IN IF j <= Len(a) /\ IsCitation(a[j]) /\ m <= Len(a) /\ IsPunct(a[m])
            THEN <<a[m], a[j]>> \o SubCiteBeforePunct(a, m + 1)
            ELSE <<a[i]>> \o SubCiteBeforePunct(a, i + 1)

\* re.sub of "([.!?])\s+(CITE)\s*([.!?])" by "\1 \2"
RECURSIVE SubPunctAfterCite(_, _)
SubPunctAfterCite(a, i) ==
    IF i > Len(a) THEN <<>>
    ELSE LET j == SkipSpace(a, i + 1)
             m == SkipSpace(a, j + 1)
         IN IF IsPunct(a[i]) /\ j <= Len(a) /\ IsCitation(a[j]) /\ m <= Len(a) /\ IsPunct(a[m])
            THEN <<a[i], a[j]>> \o SubPunctAfterCite(a, m + 1)
            ELSE <<a[i]>> \o SubPunctAfterCite(a, i + 1)

\* str.strip(): the whitespace at both ends goes
RECURSIVE Strip(_)
Strip(a) ==
    IF a = <<>> THEN a
    ELSE IF IsSpace(a[1]) THEN Strip(Tail(a))
    ELSE IF IsSpace(a[Len(a)]) THEN Strip(SubSeq(a, 1, Len(a) - 1))
    ELSE a

\* the blanks between tokens are single, so "  +" -> " " finds nothing to collapse
clean_citation_formatting(answer) ==
    LET a1 == SubCiteAfterPunct(answer, "?", 1)
        a2 == SubCiteAfterPunct(a1, ".", 1)
        a3 == SubMergeSinglePages(a2, 1)
        a4 == SubDropSecondCitation(a3, 1)
        a5 == SubCiteBeforePunct(a4, 1)
        a6 == SubPunctAfterCite(a5, 1)
    IN Strip(a6)

\* the keys of page_counts in insertion order, after the chunks up to n
RECURSIVE PageOrder(_, _)
PageOrder(chunks, n) ==
    IF n = 0 THEN <<>>
    ELSE LET before == PageOrder(chunks, n - 1)
             seen == {before[i] : i \in 1 .. Len(before)}
         IN before \o SortedSeq(PyRange(chunks[n].page_start, chunks[n].page_end) \ seen)

page_counts(chunks, p) ==
    Cardinality({i \in 1 .. Len(chunks) : p \in PyRange(chunks[i].page_start, chunks[i].page_end)})

\* mutant: the last key holding the largest count
primary_page_last_seen(chunks) ==
    LET order == PageOrder(chunks, Len(chunks))
        best == CHOOSE i \in 1 .. Len(order) :
                    /\ \A j \in 1 .. Len(order) : page_counts(chunks, order[j]) <= page_counts(chunks, order[i])
                    /\ \A j \in (i + 1) .. Len(order) : page_counts(chunks, order[j]) < page_counts(chunks, order[i])
    IN order[best]

\* max(page_counts, key=page_counts.get): the first key holding the largest count
primary_page(chunks) ==
    LET order == PageOrder(chunks, Len(chunks))
        best == CHOOSE i \in 1 .. Len(order) :
                    /\ \A j \in 1 .. Len(order) : page_counts(chunks, order[j]) <= page_counts(chunks, order[i])
                    /\ \A j \in 1 .. (i - 1) : page_counts(chunks, order[j]) < page_counts(chunks, order[i])
    IN order[best]

\* answer.split("\n\n") without the empty paragraphs
RECURSIVE SplitParagraphs(_)
SplitParagraphs(a) ==
    IF a = <<>> THEN <<>>
    ELSE LET n == CHOOSE m \in 0 .. Len(a) :
                      /\ \A i \in 1 .. m : ~IsSpace(a[i])
                      /\ (m = Len(a) \/ IsSpace(a[m + 1]))
             rest == IF n >= Len(a) THEN <<>> ELSE SubSeq(a, n + 2, Len(a))
         IN IF n = 0 THEN SplitParagraphs(rest)
            ELSE <<SubSeq(a, 1, n)>> \o SplitParagraphs(rest)

RECURSIVE JoinParagraphs(_)
JoinParagraphs(ps) ==
    IF ps = <<>> THEN <<>>
    ELSE IF Len(ps) = 1 THEN ps[1]
    ELSE ps[1] \o <<ParaBreak>> \o JoinParagraphs(Tail(ps))

\* len(para.split()): a punctuation character is part of the word before it
RECURSIVE WordCount(_, _)
WordCount(para, i) ==
    IF i > Len(para) THEN 0
    ELSE (CASE para[i].k \in {"text", "refusal"} -> para[i].s
            [] IsCitation(para[i]) -> 2
            [] IsPunct(para[i]) -> IF i = 1 THEN 1 ELSE 0
            [] OTHER -> 0)
         + WordCount(para, i + 1)

\* one paragraph of ensure_sentence_citations
CiteParagraph(para, page) ==
    IF is_refusal_answer(para) \/ \E i \in 1 .. Len(para) : IsCitation(para[i]) THEN para
    ELSE IF WordCount(para, 1) > 10
         THEN IF IsPunct(para[Len(para)])
              THEN SubSeq(para, 1, Len(para) - 1) \o <<PageCite(page), para[Len(para)]>>
              ELSE para \o <<PageCite(page), Dot>>
         ELSE para

ensure_sentence_citations(answer, chunks) ==
    IF chunks = <<>> THEN answer
    ELSE LET ps == SplitParagraphs(answer)
             page == primary_page(chunks)
         IN JoinParagraphs([i \in 1 .. Len(ps) |-> CiteParagraph(ps[i], page)])

\* the pages a citation names that are (not) valid, in the order the final loop meets them
InvalidPagesOf(c, valid_pages) == SortedSeq(PyRange(c[1], c[2]) \ valid_pages)

ValidationResult(valid, answer, cited_pages, invalid_pages, error) ==
    [valid |-> valid, answer |-> answer, cited_pages |-> cited_pages,
     invalid_pages |-> invalid_pages, error |-> error]

NoError == <<"none">>

validate_and_fix_citations(answer, chunks) ==
    IF is_refusal_answer(answer)
    THEN ValidationResult(TRUE, answer, <<>>, <<>>, NoError)
    ELSE LET valid_pages == get_valid_page_range(chunks)
             removed == remove_invalid_citations(answer, valid_pages)
             cleaned == clean_citation_formatting(removed)
             fixed_answer == IF \E i \in 1 .. Len(cleaned) : IsCitation(cleaned[i])
                             THEN cleaned
                             ELSE ensure_sentence_citations(cleaned, chunks)
             citations == extract_citations(fixed_answer)
             cited_pages_set == UNION {PyRange(citations[i][1], citations[i][2]) \cap valid_pages :
                                          i \in 1 .. Len(citations)}
             invalid_pages == Flatten([i \in 1 .. Len(citations) |->
                                          InvalidPagesOf(citations[i], valid_pages)])
         IN IF invalid_pages # <<>>
            THEN ValidationResult(FALSE, fixed_answer, SortedSeq(cited_pages_set), invalid_pages,
                                  <<"Invalid citations remain", invalid_pages>>)
            ELSE ValidationResult(TRUE, fixed_answer, SortedSeq(cited_pages_set), <<>>, NoError)

\* ----------------------------------------------- confidence_scorer.py
\* Scores and confidences are in hundredths (0.4 is 40).  The terms are kept as exact
\* fractions over a common denominator; round(x, 2) rounds the quotient half to even.
ConfidenceInputs(retrieval_scores, n_retrieved, n_cited, n_pages, n_documents, valid, regeneration) ==
    [retrieval_scores |-> retrieval_scores, num_chunks_retrieved |-> n_retrieved,
     num_chunks_cited |-> n_cited, num_pages_cited |-> n_pages,
     num_documents |-> n_documents, citation_valid |-> valid,
     required_regeneration |-> regeneration]

Min(a, b) == IF a <= b THEN a ELSE b

Max(a, b) == IF a >= b THEN a ELSE b

RECURSIVE SumSeq(_)
SumSeq(q) == IF q = <<>> THEN 0 ELSE Head(q) + SumSeq(Tail(q))

\* round(num / den, 2) in hundredths, for num / den given in units of one
RoundHundredths(num, den) ==
    LET q == (100 * num) \div den
        r == (100 * num) % den
    IN IF 2 * r > den THEN q + 1
       ELSE IF 2 * r = den THEN (IF q % 2 = 1 THEN q + 1 ELSE q)
       ELSE q

\* The terms of the score are numerators over ScoreDen(inputs): 0.4 is 360 * ScoreUnit.
ScoreUnit(inputs) == Max(Len(inputs.retrieval_scores), 1) * Max(inputs.num_chunks_retrieved, 1)

ScoreDen(inputs) == 900 * ScoreUnit(inputs)

relevance_score(inputs) ==
    LET n == Len(inputs.retrieval_scores)
        clamped_scores == [i \in 1 .. n |-> Max(0, Min(100, inputs.retrieval_scores[i]))]
    IN IF n > 0
       THEN Min(SumSeq(clamped_scores), 90 * n) * 4 * Max(inputs.num_chunks_retrieved, 1)
       ELSE 0

coverage_score(inputs) ==
    IF inputs.num_chunks_retrieved > 0
    THEN Min(inputs.num_chunks_cited, inputs.num_chunks_retrieved)
         * 270 * Max(Len(inputs.retrieval_scores), 1)
    ELSE 0

source_score(inputs) ==
    IF inputs.num_pages_cited >= 3 THEN 180 * ScoreUnit(inputs)
    ELSE IF inputs.num_pages_cited >= 2 THEN 135 * ScoreUnit(inputs)
    ELSE IF inputs.num_pages_cited >= 1 THEN 90 * ScoreUnit(inputs)
    ELSE 0

doc_score_exact_count(inputs) ==
    IF inputs.num_documents > 1 /\ inputs.num_chunks_cited = inputs.num_documents
    THEN 90 * ScoreUnit(inputs)
    ELSE IF inputs.num_documents = 1 THEN 45 * ScoreUnit(inputs)
    ELSE 0

doc_score(inputs) ==
    IF inputs.num_documents > 1 /\ inputs.num_chunks_cited >= inputs.num_documents
    THEN 90 * ScoreUnit(inputs)
    ELSE IF inputs.num_documents = 1 THEN 45 * ScoreUnit(inputs)
    ELSE 0

penalty(inputs) == IF inputs.required_regeneration THEN 135 * ScoreUnit(inputs) ELSE 0

raw_score(inputs) ==
    relevance_score(inputs) + coverage_score(inputs) + source_score(inputs)
    + doc_score(inputs) - penalty(inputs)

final_score_up_to_one(inputs) == Max(0, Min(900 * ScoreUnit(inputs), raw_score(inputs)))

final_score(inputs) == Max(0, Min(891 * ScoreUnit(inputs), raw_score(inputs)))

compute_confidence(inputs) ==
    IF ~inputs.citation_valid THEN 0
    ELSE RoundHundredths(final_score(inputs), ScoreDen(inputs))

\* one call of compute_confidence with the value it returned
Scored(inputs) == [inputs |-> inputs, value |-> compute_confidence(inputs)]

\* ------------------------------------------ qa_engine.py, multi_doc_qa.py
MAX_RETRIES == 2

\* errors a generation call reports
GenerationErrors == {<<"HTTP 500">>, <<"Request timed out">>}

\* answers a generation call returns: a cited sentence, an uncited paragraph, a refusal,
\* two single-page citations side by side, a range citation, a short cited sentence
GenAnswers ==
    {<<LongText, Dot, PageCite(1)>>,
     <<LongText, Dot>>,
     <<Refusal, Dot>>,
     <<ShortText, PageCite(1), PageCite(3), Dot>>,
     <<LongText, PagesCite(2, 3), Dot>>,
     <<ShortText, Dot, PageCite(2)>>}

\* retrieval scores of the chunks, in hundredths
RetrievalScores == {45, 95}

\* the chunks of a request: up to two, the second one possibly of a second document
QAChunkLists ==
    {<<>>}
    \cup {<<MkChunk(1, 1, r[1], r[2])>> : r \in PageRanges}
    \cup {<<MkChunk(1, 1, r[1], r[2]), MkChunk(2, d, q[1], q[2])>> :
              r \in PageRanges, q \in PageRanges, d \in {1, 2}}

DocumentsOf(cs) == {cs[i].document_id : i \in 1 .. Len(cs)}

QAResult(ans, sources, cited_pages, success, error) ==
    [answer |-> ans, sources |-> sources, cited_pages |-> cited_pages, success |-> success,
     error |-> error]

MultiDocQAResult(ans, sources, cited_pages, confidence, success, error, regeneration) ==
    [answer |-> ans, sources |-> sources, cited_pages |-> cited_pages,
     confidence |-> confidence, success |-> success, error |-> error,
     required_regeneration |-> regeneration]

NoResult == [success |-> FALSE, pending |-> TRUE]

\* build_messages / build_multi_doc_prompt: the system message, and the user message as
\* the prompt followed by the hints appended to it
build_messages(cs) == [system |-> "system", user |-> <<<<"prompt", cs>>>>]

\* the hint of both loops: the validation error and the list of valid pages
RetryHint(error, cs) == <<"PREVIOUS ATTEMPT HAD ERRORS", error, SortedSeq(get_valid_page_range(cs))>>

\* mutant: the hint is appended to the first prompt, so that an earlier hint is lost
add_hint_to_first_prompt(msgs, hint) == [system |-> msgs.system, user |-> <<msgs.user[1], hint>>]

add_hint(msgs, hint) == [system |-> msgs.system, user |-> Append(msgs.user, hint)]

\* the empty-input results of both variants
NoChunksResult(v) ==
    IF v = "single"
    THEN QAResult(<<Refusal>>, <<>>, <<>>, TRUE, NoError)
    ELSE MultiDocQAResult(<<Refusal>>, <<>>, <<>>, 0, TRUE, NoError, FALSE)

\* answer_question: the chunks holding a cited page, reported with the cited page range
cited_sources(cs, cited_pages) ==
    LET cited == SeqToSet(cited_pages)
        Hit(c) == PyRange(c.page_start, c.page_end) \cap cited # {}
        Narrow(c) == LET cited_in_chunk == SortedSeq(PyRange(c.page_start, c.page_end) \cap cited)
                     IN [c EXCEPT !.page_start = cited_in_chunk[1],
                                  !.page_end = cited_in_chunk[Len(cited_in_chunk)]]
        hits == SelectSeq(cs, Hit)
    IN IF cited_pages = <<>> THEN <<>> ELSE [i \in 1 .. Len(hits) |-> Narrow(hits[i])]

\* generate_multi_doc_answer: the chunks holding a cited page
cited_chunks(cs, cited_pages) ==
    LET Hit(c) == \E p \in PyRange(c.page_start, c.page_end) : p \in SeqToSet(cited_pages)
    IN SelectSeq(cs, Hit)

\* generate_multi_doc_answer: the inputs of the confidence of an accepted attempt
AcceptedInputs(cs, val, scs, ndocs, regeneration) ==
    ConfidenceInputs(scs, Len(cs), Len(cited_chunks(cs, val.cited_pages)), Len(val.cited_pages),
                     ndocs, TRUE, regeneration)

\* mutant: the confidence of an accepted attempt never carries the penalty
AcceptedResultWithoutPenalty(v, cs, val, scs, ndocs, regeneration) ==
    IF v = "single"
    THEN QAResult(val.answer, cited_sources(cs, val.cited_pages), val.cited_pages, TRUE, NoError)
    ELSE MultiDocQAResult(val.answer, cited_chunks(cs, val.cited_pages), val.cited_pages,
                          compute_confidence(AcceptedInputs(cs, val, scs, ndocs, FALSE)),
                          TRUE, NoError, regeneration)

\* the result of an accepted attempt
AcceptedResult(v, cs, val, scs, ndocs, regeneration) ==
    IF v = "single"
    THEN QAResult(val.answer, cited_sources(cs, val.cited_pages), val.cited_pages, TRUE, NoError)
    ELSE LET cited == cited_chunks(cs, val.cited_pages)
             confidence == compute_confidence(ConfidenceInputs(
                               scs, Len(cs), Len(cited), Len(val.cited_pages), ndocs, TRUE,
                               regeneration))
         IN MultiDocQAResult(val.answer, cited, val.cited_pages, confidence, TRUE, NoError,
                             regeneration)

\* mutant: the text of the last validated attempt is returned as a best effort
BestEffortResult(v, error, val) ==
    IF v = "single"
    THEN QAResult(val.answer, <<>>, val.cited_pages, FALSE,
                  <<"Failed to generate valid answer">> \o error)
    ELSE MultiDocQAResult(val.answer, <<>>, val.cited_pages, 0, FALSE,
                          <<"Failed to generate valid answer after retries">>, TRUE)

\* the result once all attempts are used up
ExhaustedResult(v, error, val) ==
    IF v = "single"
    THEN QAResult(<<>>, <<>>, <<>>, FALSE, <<"Failed to generate valid answer">> \o error)
    ELSE MultiDocQAResult(<<>>, <<>>, <<>>, 0, FALSE,
                          <<"Failed to generate valid answer after retries">>, TRUE)

Attempt(outcome, error) == [outcome |-> outcome, error |-> error]

\* ------------------------------------------------------ core/concurrency.py
MAX_CONCURRENT_LLM == 2

\* concurrent callers of with_llm_limit_or_reject
NumCallers == 3

Callers == 1 .. NumCallers

\* A caller is "idle" before the call, "waiting" while its acquire() is suspended on a
\* pending future, "granted" once a release has resolved that future and before the
\* caller's task has run again, "running" while the wrapped coroutine runs, and ends
\* "returned", "raised" (exception out of the coroutine), "cancelled" or "rejected"
\* (QueueFullError).
Holding == {"granted", "running"}
Ended == {"returned", "raised", "cancelled", "rejected"}

Gate(v, ws, st) == [value |-> v, waiters |-> ws, cstate |-> st]

\* get_llm_semaphore: the semaphore is created once, with MAX_CONCURRENT_LLM permits
get_llm_semaphore == Gate(MAX_CONCURRENT_LLM, <<>>, [c \in Callers |-> "idle"])

\* mutant: a semaphore that never reports itself locked
locked_never(g) == FALSE

\* Semaphore.locked(): no free permit, or somebody is queued already
locked(g) == g.value = 0 \/ g.waiters # <<>>

\* Semaphore._wake_up_next(): hand a permit to the first waiter whose future is pending
wake_up_next(g) ==
    LET pending == {i \in 1 .. Len(g.waiters) : g.cstate[g.waiters[i]] = "waiting"}
    IN IF pending = {} THEN g
       ELSE LET i == CHOOSE x \in pending : \A y \in pending : x <= y
            IN Gate(g.value - 1, g.waiters, [g.cstate EXCEPT ![g.waiters[i]] = "granted"])

\* "while self._value > 0: if not self._wake_up_next(): break", at the end of acquire()
RECURSIVE wake_while_free(_)
wake_while_free(g) ==
    IF g.value > 0 /\ wake_up_next(g) # g THEN wake_while_free(wake_up_next(g)) ELSE g

\* mutant: a release that wakes the next waiter without putting the permit back
release_no_increment(g) == wake_up_next(g)

\* Semaphore.release()
release(g) == wake_up_next(Gate(g.value + 1, g.waiters, g.cstate))

RemoveWaiter(ws, c) == SelectSeq(ws, LAMBDA x : x # c)

\* acquire() leaving its wait by cancellation (the timeout of wait_for cancels it too):
\* the future leaves the queue, a permit already handed over is put back, and the
\* waiters that can now run are woken
abandon_wait(g, c, outcome) ==
    LET v == IF g.cstate[c] = "granted" THEN g.value + 1 ELSE g.value
    IN wake_while_free(Gate(v, RemoveWaiter(g.waiters, c), [g.cstate EXCEPT ![c] = outcome]))

\* ------------------------------------- multi_doc_qa.py: retrieve_from_documents
FIGURE_DEFAULT_SCORE == 70

\* the documents of a request, in the order of document_ids
document_ids == <<"A", "B">>

DocIds == SeqToSet(document_ids)

\* A question is known by what the patterns of is_likely_image_question find in it: one
\* of the excluded phrases ("figure out"), one of the "show image" phrases, a keyword.
Questions == [exclusion : BOOLEAN, phrase : BOOLEAN, keyword : BOOLEAN]

is_likely_image_question(q) ==
    IF q.exclusion THEN FALSE
    ELSE IF q.phrase THEN TRUE
    ELSE q.keyword

\* rows of document_chunks
ChunkRow(id, doc, ps, pe) ==
    [id |-> id, document_id |-> doc, content |-> <<"content", id>>, page_start |-> ps, page_end |-> pe]

AllChunkRows == {ChunkRow("a1", "A", 1, 1), ChunkRow("a2", "A", 2, 3), ChunkRow("b1", "B", 1, 2)}

\* the stored rows: all of them, or with one chunk deleted since it was indexed
ChunkTables == {AllChunkRows, AllChunkRows \ {ChunkRow("a2", "A", 2, 3)}}

\* rows of document_figures
FigureRow(id, doc, page) ==
    [id |-> id, document_id |-> doc, page_number |-> page, figure_type |-> "chart",
     description |-> <<"description", id>>]

AllFigureRows == {FigureRow("figA", "A", 1), FigureRow("figB", "B", 2)}

\* what the vector index holds for a document: ranked (chunk id, score) pairs
Hit(id, score) == [chunk_id |-> id, score |-> score]

IndexContents ==
    [A : {<<>>, <<Hit("a1", 90)>>, <<Hit("a1", 90), Hit("a2", 60)>>, <<Hit("a2", 80), Hit("a1", 40)>>},
     B : {<<>>, <<Hit("b1", 75)>>}]

\* how the embedding request of one search ends, and how the index query ends
EmbeddingOutcomes == {"ok", "http_status_error", "request_error", "parse_error"}
IndexOutcomes == {"ok", "raises"}

\* embedder.generate_embedding: a vector, None, or the re-raised httpx.RequestError
generate_embedding(outcome) ==
    CASE outcome = "ok" -> "vector"
      [] outcome = "request_error" -> "raise RequestError"
      [] OTHER -> "None"

\* retriever.search_similar: the ranked results, or the exception that leaves it
search_similar(embedding, index_outcome, content) ==
    LET query_embedding == generate_embedding(embedding)
    IN IF query_embedding = "raise RequestError"
       THEN [results |-> <<>>, error |-> "RequestError", index_queried |-> FALSE]
       ELSE IF query_embedding = "None"
       THEN [results |-> <<>>, error |-> "none", index_queried |-> FALSE]
       ELSE IF index_outcome = "raises"
       THEN [results |-> <<>>, error |-> "IndexError", index_queried |-> TRUE]
       ELSE [results |-> content, error |-> "none", index_queried |-> TRUE]

\* the record of one search_similar call: how its embedding request ended, whether the
\* index was queried, what it returned and the exception that left it
SearchCall(embedding, r) ==
    [embedding |-> embedding, index_queried |-> r.index_queried, results |-> r.results,
     raised |-> r.error]

NoCall == [embedding |-> "not called", index_queried |-> FALSE, results |-> <<>>, raised |-> "none"]

Pending == [status |-> "pending", results |-> <<>>, error |-> "none"]

\* retrieve_single: (doc_id, results, None) or (doc_id, None, e)
retrieve_single(embedding, index_outcome, content) ==
    LET r == search_similar(embedding, index_outcome, content)
    IN [status |-> "done", results |-> r.results, error |-> r.error]

DocumentChunkContext(chunk_id, doc, content, ps, pe, name, is_figure, figure_id) ==
    [chunk_id |-> chunk_id, document_id |-> doc, content |-> content, page_start |-> ps,
     page_end |-> pe, document_name |-> name, is_figure |-> is_figure, figure_id |-> figure_id]

doc_names == [d \in DocIds |-> <<"filename", d>>]

\* mutant: one failed document empties the whole collection
results_map_all_or_nothing(searches) ==
    IF \E d \in DocIds : searches[d].error # "none" THEN {}
    ELSE DocIds

\* the keys of results_map: the documents whose retrieval ended without an error
results_map(searches) == {d \in DocIds : searches[d].error = "none"}

\* one document's retrieved chunks: the results whose row is still stored, in rank order
RetrievedOf(d, searches, rows) ==
    LET InTable(h) == \E r \in rows : r.id = h.chunk_id
        kept == SelectSeq(searches[d].results, InTable)
        Row(h) == CHOOSE r \in rows : r.id = h.chunk_id
    IN [chunks |-> [i \in 1 .. Len(kept) |->
                       DocumentChunkContext(Row(kept[i]).id, Row(kept[i]).document_id,
                                            Row(kept[i]).content, Row(kept[i]).page_start,
                                            Row(kept[i]).page_end, doc_names[d], FALSE, "None")],
        scores |-> [i \in 1 .. Len(kept) |-> kept[i].score]]

\* the synthetic chunk of a figure row; the fresh uuid4 is named after the figure
SyntheticChunk(fig) ==
    DocumentChunkContext(IF fig.id = "figA" THEN "uuid4-1" ELSE "uuid4-2", fig.document_id,
                         <<"Figure on Page", fig.page_number, fig.figure_type, fig.description>>,
                         fig.page_number, fig.page_number, doc_names[fig.document_id], TRUE, fig.id)

RECURSIVE SetToSeq(_)
SetToSeq(S) ==
    IF S = {} THEN <<>>
    ELSE LET x == CHOOSE y \in S : TRUE IN <<x>> \o SetToSeq(S \ {x})

\* figure_chunks: per document the synthetic chunks of its figures, for an image question
figure_chunks(q, figs) ==
    IF ~is_likely_image_question(q) THEN [d \in {} |-> <<>>]
    ELSE [d \in {f.document_id : f \in figs} |->
             LET mine == SetToSeq({f \in figs : f.document_id = d})
             IN [i \in 1 .. Len(mine) |-> SyntheticChunk(mine[i])]]

MultiDocRetrievalResult(chunks_by_doc, scores_by_doc, names) ==
    [chunks_by_doc |-> chunks_by_doc, scores_by_doc |-> scores_by_doc, doc_names |-> names]

\* retrieve_from_documents after the gather.  embedder.py defines no
\* generate_query_embedding, so the import in the try block raises, question_embedding
\* is None and every figure chunk gets FIGURE_DEFAULT_SCORE.
build_retrieval(q, searches, rows, figs) ==
    LET ok == results_map(searches)
        fc == figure_chunks(q, figs)
        keys == ok \cup DOMAIN fc
        Retrieved(d) == IF d \in ok THEN RetrievedOf(d, searches, rows)
                        ELSE [chunks |-> <<>>, scores |-> <<>>]
        Figures(d) == IF d \in DOMAIN fc THEN fc[d] ELSE <<>>
    IN MultiDocRetrievalResult(
           [d \in keys |-> Retrieved(d).chunks \o Figures(d)],
           [d \in keys |-> Retrieved(d).scores
                           \o [i \in 1 .. Len(Figures(d)) |-> FIGURE_DEFAULT_SCORE]],
           doc_names)

NoRetrieval == MultiDocRetrievalResult(<<>>, <<>>, <<>>)

\* ------------------------------------------------------ services/chunker.py
\* Text model.  A page text is a sequence of atoms: a run of n punctuation characters
\* without whitespace ("blob", e.g. a ruled line of dashes), a word of n letters, a
\* blank, a newline, a full stop.  The characters of a blob can be cut apart by the
\* slices of the code; the other atoms are one character each.
TARGET_CHUNK_SIZE == 650
MIN_CHUNK_SIZE == 500
MAX_CHUNK_SIZE == 800
OVERLAP_SIZE == 125
MAX_RECURSION_DEPTH == 10

Atom(k, n) == [k |-> k, n |-> n]

Blob(n) == Atom("blob", n)
Word == Atom("word", 1)
Blank == Atom("sp", 1)
Newline == Atom("nl", 1)
Stop == Atom("dot", 1)

IsWhitespace(a) == a.k \in {"sp", "nl"}

\* len(text)
RECURSIVE CharLen(_)
CharLen(t) == IF t = <<>> THEN 0 ELSE Head(t).n + CharLen(Tail(t))

\* text.strip()
RECURSIVE LStrip(_)
LStrip(t) == IF t # <<>> /\ IsWhitespace(Head(t)) THEN LStrip(Tail(t)) ELSE t

RECURSIVE RStrip(_)
RStrip(t) ==
    IF t # <<>> /\ IsWhitespace(t[Len(t)]) THEN RStrip(SubSeq(t, 1, Len(t) - 1)) ELSE t

\* mutant: a strip() that strips nothing
StripNothing(t) == t

StripText(t) == RStrip(LStrip(t))

\* text[i:j] for 0 <= i, character positions counted from 0
RECURSIVE Slice(_, _, _)
Slice(t, i, j) ==
    IF t = <<>> \/ j <= 0 THEN <<>>
    ELSE LET a == Head(t)
             lo == IF i > 0 THEN i ELSE 0
             hi == IF j < a.n THEN j ELSE a.n
         IN IF lo >= a.n THEN Slice(Tail(t), lo - a.n, j - a.n)
            ELSE (IF hi > lo THEN <<Atom(a.k, hi - lo)>> ELSE <<>>) \o Slice(Tail(t), 0, j - a.n)

\* len(text.split()): the maximal runs of characters that are no whitespace
words(t) ==
    Cardinality({i \in 1 .. Len(t) : ~IsWhitespace(t[i]) /\ (i = 1 \/ IsWhitespace(t[i - 1]))})

\* len(re.findall(r'[^\w\s]', text))
RECURSIVE special_chars(_)
special_chars(t) ==
    IF t = <<>> THEN 0
    ELSE (IF Head(t).k \in {"blob", "dot"} THEN Head(t).n ELSE 0) + special_chars(Tail(t))

\* int(words * 1.3 + special_chars * 0.5)
estimate_tokens(t) == (13 * words(t) + 5 * special_chars(t)) \div 10

tokens_to_chars(tokens) == tokens * 4

\* the windows text[i:i + chunk_chars] for i = from, from + step, ... below len(text)
RECURSIVE Windows(_, _, _, _)
Windows(t, from, step, chunk_chars) ==
    IF from >= CharLen(t) THEN <<>>
    ELSE <<Slice(t, from, from + chunk_chars)>> \o Windows(t, from + step, step, chunk_chars)

\* mutant: an overlap as large as the window
fallback_step_zero == tokens_to_chars(MAX_CHUNK_SIZE) - tokens_to_chars(MAX_CHUNK_SIZE)

\* step = chunk_chars - overlap_chars
fallback_step == tokens_to_chars(MAX_CHUNK_SIZE) - tokens_to_chars(OVERLAP_SIZE)

_fallback_split(t) ==
    LET chunk_chars == tokens_to_chars(MAX_CHUNK_SIZE)
    IN Windows(t, 0, fallback_step, chunk_chars)

\* the separators of chunk_document, as the atoms they are made of
separators == <<<<"nl", "nl">>, <<"nl">>, <<"dot", "sp">>, <<"sp">>>>

SepText(sep) == [i \in 1 .. Len(sep) |-> Atom(sep[i], 1)]

StartsWith(t, sep) ==
    /\ Len(t) >= Len(sep)
    /\ \A i \in 1 .. Len(sep) : t[i].k = sep[i]

\* text.split(sep): the parts between the occurrences of sep, found left to right
RECURSIVE SplitFrom(_, _, _)
SplitFrom(t, sep, cur) ==
    IF t = <<>> THEN <<cur>>
    ELSE IF StartsWith(t, sep) THEN <<cur>> \o SplitFrom(SubSeq(t, Len(sep) + 1, Len(t)), sep, <<>>)
    ELSE SplitFrom(Tail(t), sep, Append(cur, Head(t)))

Split(t, sep) == SplitFrom(t, sep, <<>>)

\* The fragments of split_by_separators before any force-split: each fragment with the
\* depth it was produced at and whether it is handed to _fallback_split.
Fragment(t, depth, forced) == [text |-> t, depth |-> depth, forced |-> forced]

RECURSIVE split_fragments(_, _, _)
RECURSIVE SplitParts(_, _, _, _, _)
SplitParts(parts, i, sep, remaining_seps, depth) ==
    IF i > Len(parts) THEN <<>>
    ELSE LET rest == SplitParts(parts, i + 1, sep, remaining_seps, depth)
             part == IF i < Len(parts) THEN parts[i] \o SepText(sep) ELSE parts[i]
         IN IF StripText(parts[i]) = <<>> THEN rest
            ELSE IF estimate_tokens(part) <= MAX_CHUNK_SIZE \/ remaining_seps = <<>>
            THEN <<Fragment(part, depth,
                            estimate_tokens(part) > MAX_CHUNK_SIZE /\ remaining_seps = <<>>)>>
                 \o rest
            ELSE split_fragments(part, remaining_seps, depth + 1) \o rest

split_fragments(t, seps, depth) ==
    IF t = <<>> THEN <<>>
    ELSE IF seps = <<>> \/ depth >= MAX_RECURSION_DEPTH
    THEN <<Fragment(t, depth, estimate_tokens(t) > MAX_CHUNK_SIZE)>>
    ELSE SplitParts(Split(t, Head(seps)), 1, Head(seps), Tail(seps), depth)

RECURSIVE ForceSplit(_)
ForceSplit(fragments) ==
    IF fragments = <<>> THEN <<>>
    ELSE (IF Head(fragments).forced THEN _fallback_split(Head(fragments).text)
          ELSE <<Head(fragments).text>>) \o ForceSplit(Tail(fragments))

split_by_separators(t, seps, depth) == ForceSplit(split_fragments(t, seps, depth))

\* merge_small_chunks: the loop over the segments, with the running segment
RECURSIVE MergeFrom(_, _, _)
MergeFrom(segments, current, min_size) ==
    IF segments = <<>> THEN (IF current # <<>> THEN <<current>> ELSE <<>>)
    ELSE LET segment == Head(segments)
         IN IF StripText(segment) = <<>> THEN MergeFrom(Tail(segments), current, min_size)
            ELSE IF current = <<>> THEN MergeFrom(Tail(segments), segment, min_size)
            ELSE IF estimate_tokens(current) < min_size
            THEN MergeFrom(Tail(segments), current \o segment, min_size)
            ELSE <<current>> \o MergeFrom(Tail(segments), segment, min_size)

merge_small_chunks(segments, min_size) == MergeFrom(segments, <<>>, min_size)

\* page_markers and the positions of the pages in the concatenated text
PageText(page_number, text) == [page_number |-> page_number, text |-> text]

Chunk(chunk_index, content, page_start, page_end, token_count) ==
    [chunk_index |-> chunk_index, content |-> content, page_start |-> page_start,
     page_end |-> page_end, token_count |-> token_count]

\* get_page_at_pos: the page of the last marker at or before the position, 0 if none
get_page_at_pos(page_markers, position) ==
    LET before == {p \in DOMAIN page_markers : p <= position}
    IN IF before = {} THEN 0
       ELSE page_markers[CHOOSE p \in before : \A q \in before : q <= p]

\* overlap_text.rfind('. '): the character position of the last ". ", -1 if none
sentence_end(t) ==
    LET at == {i \in 1 .. Len(t) - 1 : t[i].k = "dot" /\ t[i + 1].k = "sp"}
    IN IF at = {} THEN -1
       ELSE CharLen(SubSeq(t, 1, (CHOOSE i \in at : \A j \in at : j <= i) - 1))

\* the overlap a new chunk starts with
overlap_text(current_content, overlap_size) ==
    LET overlap_chars == tokens_to_chars(overlap_size)
        n == CharLen(current_content)
        tail == Slice(current_content, n - overlap_chars, n)
    IN IF n <= overlap_chars THEN <<>>
       ELSE IF sentence_end(tail) > 0 THEN Slice(tail, sentence_end(tail) + 2, CharLen(tail))
       ELSE tail

\* create_overlapping_chunks: one iteration of the loop over the segments.  seeded is
\* the overlap the running chunk started with, kept for the chunk as "overlap".
ChunkerState(chunks, current_content, current_start_page, chunk_index, text_pos, seeded) ==
    [chunks |-> chunks, current_content |-> current_content,
     current_start_page |-> current_start_page, chunk_index |-> chunk_index,
     text_pos |-> text_pos, seeded |-> seeded]

WithOverlap(chunk, seeded) ==
    [chunk_index |-> chunk.chunk_index, content |-> chunk.content,
     page_start |-> chunk.page_start, page_end |-> chunk.page_end,
     token_count |-> chunk.token_count, overlap |-> seeded]

AddSegment(st, segment, overlap_size, page_markers) ==
    LET closes == /\ st.current_content # <<>>
                  /\ estimate_tokens(st.current_content) + estimate_tokens(segment) > MAX_CHUNK_SIZE
        content == StripText(st.current_content)
        page_end == IF st.text_pos > 0 THEN get_page_at_pos(page_markers, st.text_pos - 1)
                    ELSE st.current_start_page
        closed == IF closes /\ content # <<>>
                  THEN Append(st.chunks,
                              WithOverlap(Chunk(st.chunk_index, content, st.current_start_page,
                                                page_end, estimate_tokens(content)), st.seeded))
                  ELSE st.chunks
        next_index == IF closes /\ content # <<>> THEN st.chunk_index + 1 ELSE st.chunk_index
        seed == overlap_text(st.current_content, overlap_size)
        long == CharLen(st.current_content) > tokens_to_chars(overlap_size)
        start == IF ~closes THEN st.current_start_page
                 ELSE IF long THEN get_page_at_pos(page_markers, st.text_pos - CharLen(seed))
                 ELSE get_page_at_pos(page_markers, st.text_pos)
    IN ChunkerState(closed,
                    (IF closes THEN seed ELSE st.current_content) \o segment,
                    start, next_index, st.text_pos + CharLen(segment),
                    IF closes THEN seed ELSE st.seeded)

RECURSIVE AddSegments(_, _, _, _)
AddSegments(st, segments, overlap_size, page_markers) ==
    IF segments = <<>> THEN st
    ELSE AddSegments(AddSegment(st, Head(segments), overlap_size, page_markers),
                     Tail(segments), overlap_size, page_markers)

\* mutant: the chunk index counts from 1
create_overlapping_chunks_from_one(segments, target_size, overlap_size, page_markers) ==
    LET st == AddSegments(ChunkerState(<<>>, <<>>, 0, 1, 0, <<>>), segments, overlap_size,
                          page_markers)
        content == StripText(st.current_content)
    IN IF content # <<>>
       THEN Append(st.chunks,
                   WithOverlap(Chunk(st.chunk_index, content, st.current_start_page,
                                     get_page_at_pos(page_markers, st.text_pos - 1),
                                     estimate_tokens(content)), st.seeded))
       ELSE st.chunks

create_overlapping_chunks(segments, target_size, overlap_size, page_markers) ==
    LET st == AddSegments(ChunkerState(<<>>, <<>>, 0, 0, 0, <<>>), segments, overlap_size,
                          page_markers)
        content == StripText(st.current_content)
    IN IF content # <<>>
       THEN Append(st.chunks,
                   WithOverlap(Chunk(st.chunk_index, content, st.current_start_page,
                                     get_page_at_pos(page_markers, st.text_pos - 1),
                                     estimate_tokens(content)), st.seeded))
       ELSE st.chunks

\* sorted(pages, key=page_number): a stable insertion sort
RECURSIVE SortPages(_)
SortPages(ps) ==
    IF ps = <<>> THEN <<>>
    ELSE LET rest == SortPages(Tail(ps))
             before == SelectSeq(rest, LAMBDA p : p.page_number < Head(ps).page_number)
             after == SelectSeq(rest, LAMBDA p : p.page_number >= Head(ps).page_number)
         IN before \o <<Head(ps)>> \o after

\* the concatenation loop of chunk_document: the text and the page markers
RECURSIVE Concatenate(_, _, _)
Concatenate(ps, full_text, page_markers) ==
    IF ps = <<>> THEN [full_text |-> full_text, page_markers |-> page_markers]
    ELSE LET pos == CharLen(full_text)
             added == full_text \o Head(ps).text
             ended == IF added # <<>> /\ added[Len(added)].k = "nl" THEN added
                      ELSE Append(added, Newline)
         IN Concatenate(Tail(ps), ended,
                        [p \in DOMAIN page_markers \cup {pos} |->
                            IF p = pos THEN Head(ps).page_number ELSE page_markers[p]])

chunk_document(ps) ==
    IF ps = <<>> THEN <<>>
    ELSE LET c == Concatenate(SortPages(ps), <<>>, [p \in {} |-> 0])
         IN IF StripText(c.full_text) = <<>> THEN <<>>
            ELSE create_overlapping_chunks(
                     merge_small_chunks(split_by_separators(c.full_text, separators, 0),
                                        MIN_CHUNK_SIZE \div 2),
                     TARGET_CHUNK_SIZE, OVERLAP_SIZE, c.page_markers)

\* The same computation step by step.  A frame of the stack is an activation of
\* split_by_separators in its loop over the parts, or of _fallback_split in its loop
\* over the windows.
PartsFrame(parts, sep, remaining_seps, depth) ==
    [kind |-> "parts", parts |-> parts, i |-> 1, sep |-> sep, remaining_seps |-> remaining_seps,
     depth |-> depth, text |-> <<>>, from |-> 0]

WindowsFrame(t, depth) ==
    [kind |-> "windows", parts |-> <<>>, i |-> 1, sep |-> <<>>, remaining_seps |-> <<>>,
     depth |-> depth, text |-> t, from |-> 0]

\* the entry of split_by_separators: the frame it starts, or what it returns at once
Enter(t, seps, depth) ==
    IF t = <<>> THEN [push |-> <<>>, emit |-> <<>>]
    ELSE IF seps = <<>> \/ depth >= MAX_RECURSION_DEPTH
    THEN IF estimate_tokens(t) > MAX_CHUNK_SIZE
         THEN [push |-> <<WindowsFrame(t, depth)>>, emit |-> <<>>]
         ELSE [push |-> <<>>, emit |-> <<t>>]
    ELSE [push |-> <<PartsFrame(Split(t, Head(seps)), Head(seps), Tail(seps), depth)>>,
          emit |-> <<>>]

\* one iteration of the loop of merge_small_chunks
MergeOne(result, current, segment, min_size) ==
    IF StripText(segment) = <<>> THEN [result |-> result, current |-> current]
    ELSE IF current = <<>> THEN [result |-> result, current |-> segment]
    ELSE IF estimate_tokens(current) < min_size
    THEN [result |-> result, current |-> current \o segment]
    ELSE [result |-> Append(result, current), current |-> segment]

\* the final chunk of create_overlapping_chunks
FinalChunk(st, page_markers) ==
    LET content == StripText(st.current_content)
    IN IF content # <<>>
       THEN Append(st.chunks,
                   WithOverlap(Chunk(st.chunk_index, content, st.current_start_page,
                                     get_page_at_pos(page_markers, st.text_pos - 1),
                                     estimate_tokens(content)), st.seeded))
       ELSE st.chunks

NoPageMarkers == [p \in {} |-> 0]

\* the documents chunked: atoms and page breaks, at most MaxDocLen of them
PageBreak == Atom("pb", 1)

DocAtoms == {Blob(1100), Blob(3000), Word, Blank, Newline, Stop, PageBreak}

Documents == SeqsUpTo(DocAtoms, MaxDocLen)

\* the texts of the pages of a document, in order
RECURSIVE PageTexts(_, _)
PageTexts(doc, cur) ==
    IF doc = <<>> THEN <<cur>>
    ELSE IF Head(doc) = PageBreak THEN <<cur>> \o PageTexts(Tail(doc), <<>>)
    ELSE PageTexts(Tail(doc), Append(cur, Head(doc)))

\* the pages handed to chunk_document: numbered from first, in order or reversed
PagesOf(doc, first, reversed) ==
    LET texts == PageTexts(doc, <<>>)
        n == Len(texts)
    IN [i \in 1 .. n |-> IF reversed THEN PageText(first + n - i, texts[n + 1 - i])
                         ELSE PageText(first + i - 1, texts[i])]

PageSequences ==
    {PagesOf(doc, first, reversed) : doc \in Documents, first \in {1, 2}, reversed \in BOOLEAN}

\* ------------------------------------------ services/conversation_manager.py
\* A question or a message is a sequence of tokens: words as they are written, and
\* punctuation characters.  Words are separated by one blank; a punctuation character is
\* attached to the word before it.  The texts hold no digits, so the four number patterns
\* of extract_entities (Q1, 2023, $100M, 15%) find nothing in them.
PunctuationTokens == {"?", ".", ",", "(", ")"}

\* \w+
IsWordToken(t) == t \notin PunctuationTokens

\* str.lower()
Lower(w) ==
    CASE w = "What" -> "what"
      [] w = "How" -> "how"
      [] w = "Revenue" -> "revenue"
      [] w = "The" -> "the"
      [] OTHER -> w

\* [A-Z][a-z]+
IsCapitalized(w) == Lower(w) # w

LowerText(text) == [i \in 1 .. Len(text) |-> Lower(text[i])]

ConversationContext(entities, last_question, last_answer, rewritten_question, needs_rewrite) ==
    [entities |-> entities, last_question |-> last_question, last_answer |-> last_answer,
     rewritten_question |-> rewritten_question, needs_rewrite |-> needs_rewrite]

QAMessage(role, content) == [role |-> role, content |-> content]

\* None, and the empty string that the code treats alike
None == <<>>

business_terms ==
    {"revenue", "profit", "margin", "growth", "sales", "cost", "expense", "income", "earnings",
     "ebitda"}

\* \b[A-Z][a-z]+(?:\s+[A-Z][a-z]+)*\b : the longest runs of capitalized words
CapitalizedTerms(text) ==
    {SubSeq(text, run[1], run[2]) :
        run \in {r \in (1 .. Len(text)) \X (1 .. Len(text)) :
                    /\ r[1] <= r[2]
                    /\ \A k \in r[1] .. r[2] : IsCapitalized(text[k])
                    /\ (r[1] = 1 \/ ~IsCapitalized(text[r[1] - 1]))
                    /\ (r[2] = Len(text) \/ ~IsCapitalized(text[r[2] + 1]))}}

\* the set of which extract_entities returns a list
extract_entities(text) ==
    CapitalizedTerms(text)
    \cup {<<Lower(text[i])>> : i \in {k \in 1 .. Len(text) : Lower(text[k]) \in business_terms}}

\* list(set(...)): the elements in the order the string hashes of the process give them
ListOfSet(S, hash_order) == SelectSeq(hash_order, LAMBDA e : e \in S)

\* the words at positions i, i + 1, ... of the lowered text are the given ones
WordsAt(text, i, ws) ==
    /\ i + Len(ws) - 1 <= Len(text)
    /\ \A k \in 1 .. Len(ws) : Lower(text[i + k - 1]) \in ws[k]

HasWords(text, ws) == \E i \in 1 .. Len(text) : WordsAt(text, i, ws)

\* COREFERENCE_PATTERNS, each as the words it asks for, one set per position
COREFERENCE_PATTERNS ==
    {<<{"it", "this", "that", "these", "those"}>>,
     <<{"the"}, {"same", "above", "previous", "latter", "former"}>>,
     <<{"compare", "comparison", "versus", "vs", "differ", "difference"}>>,
     <<{"how"}, {"does"}, {"it", "that", "this"}>>,
     <<{"what"}, {"about"}>>,
     <<{"and"}, {"the", "that", "those"}>>}

needs_coreference_resolution(question) == \E pattern \in COREFERENCE_PATTERNS : HasWords(question, pattern)

\* re.sub of every match of the words by the replacement, scanning from position i
RECURSIVE SubWords(_, _, _, _)
SubWords(text, ws, repl, i) ==
    IF i > Len(text) THEN <<>>
    ELSE IF WordsAt(text, i, ws) THEN repl \o SubWords(text, ws, repl, i + Len(ws))
    ELSE <<text[i]>> \o SubWords(text, ws, repl, i + 1)

\* re.sub(..., count=1)
SubFirstWords(text, ws, repl) ==
    IF ~HasWords(text, ws) THEN text
    ELSE LET i == CHOOSE x \in 1 .. Len(text) :
                      WordsAt(text, x, ws) /\ \A y \in 1 .. (x - 1) : ~WordsAt(text, y, ws)
         IN SubSeq(text, 1, i - 1) \o repl \o SubSeq(text, i + Len(ws), Len(text))

WordAt(text, i) == i <= Len(text) /\ IsWordToken(text[i])

\* (?:what|how|when|where|why|which)\s+(?:is|was|are|were|did)?\s*(?:the\s+)?(\w+(?:\s+\w+)?)
\* matched at the question word at position i: the position where group 1 starts, 0 if no match
SubjectStart(text, i) ==
    LET aux == WordAt(text, i + 1) /\ Lower(text[i + 1]) \in {"is", "was", "are", "were", "did"}
    IN IF i > Len(text) \/ Lower(text[i]) \notin {"what", "how", "when", "where", "why", "which"}
       THEN 0
       ELSE IF aux /\ WordAt(text, i + 2) /\ Lower(text[i + 2]) = "the" /\ WordAt(text, i + 3)
       THEN i + 3
       ELSE IF aux /\ WordAt(text, i + 2) THEN i + 2
       ELSE IF WordAt(text, i + 1) /\ Lower(text[i + 1]) = "the" /\ WordAt(text, i + 2) THEN i + 2
       ELSE IF WordAt(text, i + 1) THEN i + 1
       ELSE 0

\* subject_match.group(1) of the first match in last_question, None without a match
subject_match(last_question) ==
    LET starts == {i \in 1 .. Len(last_question) : SubjectStart(last_question, i) > 0}
    IN IF starts = {} THEN None
       ELSE LET i == CHOOSE x \in starts : \A y \in starts : x <= y
                s == SubjectStart(last_question, i)
            IN IF WordAt(last_question, s + 1) THEN SubSeq(last_question, s, s + 1)
               ELSE SubSeq(last_question, s, s)

\* ", ".join(entities[:5])
RECURSIVE JoinEntities(_)
JoinEntities(entities) ==
    IF entities = <<>> THEN <<>>
    ELSE IF Len(entities) = 1 THEN entities[1]
    ELSE entities[1] \o <<",">> \o JoinEntities(Tail(entities))

entity_context(entities) ==
    JoinEntities(SubSeq(entities, 1, IF Len(entities) < 5 THEN Len(entities) ELSE 5))

\* "part in text"
Contains(text, part) ==
    \E i \in 0 .. (Len(text) - Len(part)) : SubSeq(text, i + 1, i + Len(part)) = part

rewrite_with_context(question, last_question, last_answer, entities) ==
    LET r1 == IF entities # <<>> /\ HasWords(question, <<{"it"}>>) /\ Len(entities) = 1
              THEN SubWords(question, <<{"it"}>>, entities[1], 1)
              ELSE question
        r2 == IF entities # <<>> /\ HasWords(r1, <<{"that", "this"}>>)
                 /\ subject_match(last_question) # None
              THEN SubFirstWords(r1, <<{"that", "this"}>>, subject_match(last_question))
              ELSE r1
        compare == <<{"how"}, {"does"}, {"it", "that", "this"}, {"compare"}>>
        r3 == IF HasWords(r2, compare) /\ entities # <<>>
              THEN SubWords(r2, compare, <<"how", "does">> \o entities[1] \o <<"compare">>, 1)
              ELSE r2
        r4 == IF HasWords(r3, <<{"what"}, {"about"}>>)
              THEN SubWords(r3, <<{"what"}, {"about"}>>, <<"what", "is">>, 1)
              ELSE r3
    IN IF HasWords(r3, <<{"what"}, {"about"}>>) /\ entities # <<>>
          /\ ~Contains(r4, entity_context(entities))
       THEN r4 \o <<"(", "in", "context", "of">> \o entity_context(entities) \o <<")">>
       ELSE r4

\* the content of the last message of the role, None if there is none
LastOf(messages, role) ==
    LET of_role == {i \in 1 .. Len(messages) : messages[i].role = role}
    IN IF of_role = {} THEN None
       ELSE messages[CHOOSE i \in of_role : \A j \in of_role : j <= i].content

\* resolve_followup with needs_rewrite set whenever a pattern matched
resolve_followup_flag_on_pattern(question, messages, hash_order) ==
    LET last_user == LastOf(messages, "user")
        last_assistant == LastOf(messages, "assistant")
        entities == ListOfSet(extract_entities(last_user) \cup extract_entities(last_assistant),
                              hash_order)
        rewritten == IF last_user # None /\ last_assistant # None
                     THEN rewrite_with_context(question, last_user, last_assistant, entities)
                     ELSE question
    IN IF messages = <<>>
       THEN ConversationContext(<<>>, None, None, question, FALSE)
       ELSE IF ~needs_coreference_resolution(question)
       THEN ConversationContext(ListOfSet(extract_entities(last_assistant), hash_order),
                                last_user, last_assistant, question, FALSE)
       ELSE ConversationContext(entities, last_user, last_assistant, rewritten, TRUE)

resolve_followup(question, messages, hash_order) ==
    LET last_user == LastOf(messages, "user")
        last_assistant == LastOf(messages, "assistant")
        entities == ListOfSet(extract_entities(last_user) \cup extract_entities(last_assistant),
                              hash_order)
        rewritten == IF last_user # None /\ last_assistant # None
                     THEN rewrite_with_context(question, last_user, last_assistant, entities)
                     ELSE question
    IN IF messages = <<>>
       THEN ConversationContext(<<>>, None, None, question, FALSE)
       ELSE IF ~needs_coreference_resolution(question)
       THEN ConversationContext(ListOfSet(extract_entities(last_assistant), hash_order),
                                last_user, last_assistant, question, FALSE)
       ELSE ConversationContext(entities, last_user, last_assistant, rewritten,
                                rewritten # question)

\* ------------------------------------------------------------- variables
VARIABLES
    pc,          \* position of the validator run or of the request
    answer,      \* the answer handed to validate_and_fix_citations
    chunks,      \* the chunks handed to it (all_chunks of the multi-document variant)
    validation,  \* the ValidationResult it returned
    sem_value,   \* _llm_semaphore._value: the free permits
    waiters,     \* _llm_semaphore._waiters: callers whose acquire() is suspended, in order
    cstate,      \* where each caller of with_llm_limit_or_reject stands
    started,     \* whether the caller's wrapped coroutine was ever awaited
    generating,  \* whether the caller's coroutine has a generation call in flight
    variant,     \* "single" (answer_question) or "multi" (generate_multi_doc_answer)
    scores,      \* all_scores: the retrieval scores, in hundredths
    num_documents, \* len(retrieval.doc_names)
    attempt,     \* the loop variable of the retry loop
    messages,    \* the prompt of the next generation call
    last_error,  \* answer_question's last_error
    required_regeneration, \* generate_multi_doc_answer's required_regeneration
    gen_calls,   \* generation calls made by the request so far
    history,     \* the attempts that ended without acceptance or with it, in order
    qa_result,   \* the QAResult / MultiDocQAResult returned
    question,    \* the question of retrieve_from_documents
    index,       \* what the vector index holds for each document
    db_chunks,   \* the rows of document_chunks
    figures,     \* the rows of document_figures
    search,      \* per document, the outcome of its retrieve_single task
    retrieval,   \* the MultiDocRetrievalResult returned
    calls,       \* per document, the record of its search_similar call
    pages,       \* the pages handed to chunk_document
    doc_chunks,  \* the chunks chunk_document returned
    stack,       \* the activations of split_by_separators and _fallback_split
    segments,    \* the segments produced so far by the split
    merged,      \* result of merge_small_chunks
    running,     \* current of merge_small_chunks
    cursor,      \* the segments the running loop has visited
    assembly,    \* the loop variables of create_overlapping_chunks
    steps,       \* the steps the call has taken
    scored,      \* the compute_confidence calls made: their inputs and the values returned
    revalidation, \* the ValidationResult of validating the returned answer once more
    followup_question, \* the question handed to resolve_followup
    conversation, \* conversation.messages, oldest first
    hash_order, \* per worker process, the order its string hashes give to the elements of a set
    resolved, \* the ConversationContext of every resolve_followup call so far
    vectors, \* the chunk ids the vector index holds for the document
    chunk_rows, \* the committed rows of document_chunks of the document
    task \* where each index_document_task stands, with its open transaction

citeVars == <<pc, answer, chunks, validation>>
gateVars == <<sem_value, waiters, cstate, started, generating>>
qaVars == <<variant, scores, num_documents, attempt, messages, last_error,
            required_regeneration, gen_calls, history, qa_result>>
retrVars == <<question, index, db_chunks, figures, search, retrieval, calls>>
chunkVars == <<pages, doc_chunks, stack, segments, merged, running, cursor, assembly, steps>>
confVars == <<scored>>
revalVars == <<revalidation>>
followVars == <<followup_question, conversation, hash_order, resolved>>
indexVars == <<vectors, chunk_rows, task>>
vars == <<pc, answer, chunks, validation, sem_value, waiters, cstate, started, generating,
          variant, scores, num_documents, attempt, messages, last_error,
          required_regeneration, gen_calls, history, qa_result,
          question, index, db_chunks, figures, search, retrieval, calls,
          pages, doc_chunks, stack, segments, merged, running, cursor, assembly, steps,
          scored,
          revalidation,
          followup_question, conversation, hash_order, resolved,
          vectors, chunk_rows, task>>

NoValidation == ValidationResult(FALSE, <<>>, <<>>, <<>>, NoError)

\* the validator at rest, for the specifications that do not run it alone
CiteIdle ==
    /\ pc = "idle"
    /\ answer = <<>>
    /\ chunks = <<>>
    /\ validation = NoValidation

\* the gate at rest, for the specifications that do not use it
GateIdle ==
    /\ sem_value = MAX_CONCURRENT_LLM
    /\ waiters = <<>>
    /\ cstate = [c \in Callers |-> "idle"]
    /\ started = [c \in Callers |-> FALSE]
    /\ generating = [c \in Callers |-> FALSE]

\* the chunker at rest, for the specifications that do not run it
StepsIdle ==
    /\ stack = <<>>
    /\ segments = <<>>
    /\ merged = <<>>
    /\ running = <<>>
    /\ cursor = 0
    /\ assembly = ChunkerState(<<>>, <<>>, 0, 0, 0, <<>>)
    /\ steps = 0

ChunkIdle ==
    /\ pages = <<>>
    /\ doc_chunks = <<>>
    /\ StepsIdle

\* no confidence computed, for the specifications that do not compute one alone
ConfIdle == scored = <<>>

\* no second validation, for the specifications that do not make one
RevalIdle == revalidation = NoValidation

\* no follow-up is being resolved
FollowIdle ==
    /\ followup_question = <<>>
    /\ conversation = <<>>
    /\ hash_order = <<>>
    /\ resolved = <<>>

\* no indexing task exists
IndexIdle ==
    /\ vectors = {}
    /\ chunk_rows = {}
    /\ task = <<>>

\* the retrieval at rest, for the specifications that do not run it
RetrIdle ==
    /\ question = [exclusion |-> FALSE, phrase |-> FALSE, keyword |-> FALSE]
    /\ index = [A |-> <<>>, B |-> <<>>]
    /\ db_chunks = {}
    /\ figures = {}
    /\ search = [d \in DocIds |-> Pending]
    /\ retrieval = NoRetrieval
    /\ calls = [d \in DocIds |-> NoCall]

\* the retry loops at rest, for the specifications that do not run them
QAIdle ==
    /\ variant = "none"
    /\ scores = <<>>
    /\ num_documents = 0
    /\ attempt = 0
    /\ messages = <<>>
    /\ last_error = NoError
    /\ required_regeneration = FALSE
    /\ gen_calls = 0
    /\ history = <<>>
    /\ qa_result = NoResult

\* ------------------------------------------- the validator on every input
InitCite ==
    /\ pc = "input"
    /\ answer \in Answers
    /\ chunks \in ChunkLists
    /\ validation = NoValidation
    /\ GateIdle
    /\ QAIdle
    /\ RetrIdle
    /\ ChunkIdle
    /\ ConfIdle
    /\ RevalIdle
    /\ FollowIdle
    /\ IndexIdle

Validate ==
    /\ pc = "input"
    /\ pc' = "validated"
    /\ validation' = validate_and_fix_citations(answer, chunks)
    /\ UNCHANGED <<answer, chunks, gateVars, qaVars, retrVars, chunkVars, confVars, revalVars,
                   followVars, indexVars>>

NextCite == Validate

SpecCite == InitCite /\ [][NextCite]_vars

\* ----------------------------- the validator on the answer it returned
\* the answer returned as valid is validated once more, with the same chunks
Revalidate ==
    /\ pc = "validated"
    /\ validation.valid
    /\ pc' = "revalidated"
    /\ revalidation' = validate_and_fix_citations(validation.answer, chunks)
    /\ UNCHANGED <<answer, chunks, validation, gateVars, qaVars, retrVars, chunkVars, confVars,
                   followVars, indexVars>>

NextRevalidate == Validate \/ Revalidate

SpecRevalidate == InitCite /\ [][NextRevalidate]_vars

\* ------------------------------------------------- the retry loops
InitQA ==
    /\ pc = "start"
    /\ variant \in {"single", "multi"}
    /\ chunks \in QAChunkLists
    /\ variant = "single" => DocumentsOf(chunks) \subseteq {1}
    /\ scores \in [1 .. Len(chunks) -> RetrievalScores]
    /\ num_documents \in {1, 2}
    /\ Cardinality(DocumentsOf(chunks)) <= num_documents
    /\ variant = "single" => num_documents = 1
    /\ answer = <<>>
    /\ validation = NoValidation
    /\ attempt = 0
    /\ messages = <<>>
    /\ last_error = NoError
    /\ required_regeneration = FALSE
    /\ gen_calls = 0
    /\ history = <<>>
    /\ qa_result = NoResult
    /\ GateIdle
    /\ RetrIdle
    /\ ChunkIdle
    /\ ConfIdle
    /\ RevalIdle
    /\ FollowIdle
    /\ IndexIdle

\* both functions up to the loop: the early return without chunks, else the prompt
QABegin ==
    /\ pc = "start"
    /\ IF chunks = <<>>
       THEN /\ pc' = "done"
            /\ qa_result' = NoChunksResult(variant)
            /\ UNCHANGED messages
       ELSE /\ pc' = "attempt"
            /\ messages' = build_messages(chunks)
            /\ UNCHANGED qa_result
    /\ UNCHANGED <<answer, chunks, validation, variant, scores, num_documents, attempt,
                   last_error, required_regeneration, gen_calls, history, gateVars, retrVars,
                   chunkVars, confVars, revalVars, followVars, indexVars>>

\* mutant: one attempt more than range(MAX_RETRIES + 1) allows
NextAttemptOrFailOffByOne(error) ==
    IF attempt <= MAX_RETRIES
    THEN /\ attempt' = attempt + 1
         /\ pc' = "attempt"
         /\ UNCHANGED qa_result
    ELSE /\ pc' = "done"
         /\ qa_result' = ExhaustedResult(variant, error, validation')
         /\ UNCHANGED attempt

\* the end of one iteration that did not accept: the next attempt, or the failure
\* result after the last one
NextAttemptOrFail(error) ==
    IF attempt < MAX_RETRIES
    THEN /\ attempt' = attempt + 1
         /\ pc' = "attempt"
         /\ UNCHANGED qa_result
    ELSE /\ pc' = "done"
         /\ qa_result' = ExhaustedResult(variant, error, validation')
         /\ UNCHANGED attempt

\* a generation call that reports failure: logged, the iteration ends ("continue")
QAGenerateFailed ==
    /\ pc = "attempt"
    /\ gen_calls' = gen_calls + 1
    /\ UNCHANGED <<answer, chunks, validation, variant, scores, num_documents, messages,
                   required_regeneration, gateVars, retrVars, chunkVars, confVars, revalVars,
                   followVars, indexVars>>
    /\ \E e \in GenerationErrors :
           /\ last_error' = IF variant = "single" THEN e ELSE last_error
           /\ history' = Append(history, Attempt("generation_failed", e))
           /\ NextAttemptOrFail(IF variant = "single" THEN e ELSE last_error)

\* a generation call that returns an answer
QAGenerated ==
    /\ pc = "attempt"
    /\ \E a \in GenAnswers : answer' = a
    /\ gen_calls' = gen_calls + 1
    /\ pc' = "validate"
    /\ UNCHANGED <<chunks, validation, variant, scores, num_documents, attempt, messages,
                   last_error, required_regeneration, history, qa_result, gateVars, retrVars,
                   chunkVars, confVars, revalVars, followVars, indexVars>>

\* the rest of the iteration: validation, then acceptance, or the hint and the next
\* attempt, or the failure result
QAValidate ==
    /\ pc = "validate"
    /\ validation' = validate_and_fix_citations(answer, chunks)
    /\ IF validation'.valid
       THEN /\ pc' = "done"
            /\ qa_result' = AcceptedResult(variant, chunks, validation', scores,
                                           num_documents, required_regeneration)
            /\ history' = Append(history, Attempt("accepted", NoError))
            /\ scored' = IF variant = "multi"
                         THEN Append(scored, Scored(AcceptedInputs(chunks, validation', scores,
                                                    num_documents, required_regeneration)))
                         ELSE scored
            /\ UNCHANGED <<attempt, messages, last_error, required_regeneration>>
       ELSE /\ last_error' = IF variant = "single" THEN validation'.error ELSE last_error
            /\ required_regeneration' = IF variant = "multi" THEN TRUE ELSE required_regeneration
            /\ messages' = IF attempt < MAX_RETRIES
                           THEN add_hint(messages, RetryHint(validation'.error, chunks))
                           ELSE messages
            /\ history' = Append(history, Attempt("validation_failed", validation'.error))
            /\ NextAttemptOrFail(IF variant = "single" THEN validation'.error ELSE last_error)
            /\ UNCHANGED scored
    /\ UNCHANGED <<answer, chunks, variant, scores, num_documents, gen_calls, gateVars, retrVars,
                   chunkVars, revalVars, followVars, indexVars>>

NextQA == QABegin \/ QAGenerateFailed \/ QAGenerated \/ QAValidate

SpecQA == InitQA /\ [][NextQA]_vars

\* ------------------------------------------------ the admission gate
CurrentGate == Gate(sem_value, waiters, cstate)

SetGate(g) ==
    /\ sem_value' = g.value
    /\ waiters' = g.waiters
    /\ cstate' = g.cstate

InitGate ==
    /\ CiteIdle
    /\ QAIdle
    /\ RetrIdle
    /\ ChunkIdle
    /\ ConfIdle
    /\ RevalIdle
    /\ FollowIdle
    /\ IndexIdle
    /\ sem_value = get_llm_semaphore.value
    /\ waiters = get_llm_semaphore.waiters
    /\ cstate = get_llm_semaphore.cstate
    /\ started = [c \in Callers |-> FALSE]
    /\ generating = [c \in Callers |-> FALSE]

\* with_llm_limit_or_reject up to the first suspension: the permit is taken at once and
\* the coroutine starts, or the caller queues
Acquire(c) ==
    /\ cstate[c] = "idle"
    /\ IF ~locked(CurrentGate)
       THEN /\ SetGate(Gate(sem_value - 1, waiters, [cstate EXCEPT ![c] = "running"]))
            /\ started' = [started EXCEPT ![c] = TRUE]
       ELSE /\ SetGate(Gate(sem_value, Append(waiters, c), [cstate EXCEPT ![c] = "waiting"]))
            /\ UNCHANGED started
    /\ UNCHANGED <<generating, citeVars, qaVars, retrVars, chunkVars, confVars, revalVars,
                   followVars, indexVars>>

\* the caller's task runs again after a release resolved its future: acquire() returns
\* and the coroutine is awaited
Resume(c) ==
    /\ cstate[c] = "granted"
    /\ SetGate(wake_while_free(Gate(sem_value, RemoveWaiter(waiters, c),
                                    [cstate EXCEPT ![c] = "running"])))
    /\ started' = [started EXCEPT ![c] = TRUE]
    /\ UNCHANGED <<generating, citeVars, qaVars, retrVars, chunkVars, confVars, revalVars,
                   followVars, indexVars>>

\* mutant: on a timeout the wait is started again at the back of the queue
TimeoutRetry(c) ==
    /\ cstate[c] \in {"waiting", "granted"}
    /\ SetGate(LET g == abandon_wait(CurrentGate, c, "waiting")
               IN Gate(g.value, Append(g.waiters, c), g.cstate))
    /\ UNCHANGED <<started, generating, citeVars, qaVars, retrVars, chunkVars, confVars, revalVars,
                   followVars, indexVars>>

\* wait_for times out: asyncio.TimeoutError becomes QueueFullError, the coroutine is
\* never awaited
Timeout(c) ==
    /\ cstate[c] \in {"waiting", "granted"}
    /\ SetGate(abandon_wait(CurrentGate, c, "rejected"))
    /\ UNCHANGED <<started, generating, citeVars, qaVars, retrVars, chunkVars, confVars, revalVars,
                   followVars, indexVars>>

\* the caller's task is cancelled while it waits for the slot
CancelWaiting(c) ==
    /\ cstate[c] \in {"waiting", "granted"}
    /\ SetGate(abandon_wait(CurrentGate, c, "cancelled"))
    /\ UNCHANGED <<started, generating, citeVars, qaVars, retrVars, chunkVars, confVars, revalVars,
                   followVars, indexVars>>

\* the wrapped coroutine (the generate-validate-retry loop) issues a generation call
StartGeneration(c) ==
    /\ cstate[c] = "running"
    /\ ~generating[c]
    /\ generating' = [generating EXCEPT ![c] = TRUE]
    /\ UNCHANGED <<sem_value, waiters, cstate, started, citeVars, qaVars, retrVars, chunkVars,
                   confVars, revalVars, followVars, indexVars>>

EndGeneration(c) ==
    /\ cstate[c] = "running"
    /\ generating[c]
    /\ generating' = [generating EXCEPT ![c] = FALSE]
    /\ UNCHANGED <<sem_value, waiters, cstate, started, citeVars, qaVars, retrVars, chunkVars,
                   confVars, revalVars, followVars, indexVars>>

\* "return await coro", then the finally block
Return(c) ==
    /\ cstate[c] = "running"
    /\ ~generating[c]
    /\ SetGate(release(Gate(sem_value, waiters, [cstate EXCEPT ![c] = "returned"])))
    /\ UNCHANGED <<started, generating, citeVars, qaVars, retrVars, chunkVars, confVars, revalVars,
                   followVars, indexVars>>

\* mutant: the permit is released on the normal return only (no finally block)
RaiseWithoutFinally(c) ==
    /\ cstate[c] = "running"
    /\ SetGate(Gate(sem_value, waiters, [cstate EXCEPT ![c] = "raised"]))
    /\ generating' = [generating EXCEPT ![c] = FALSE]
    /\ UNCHANGED <<started, citeVars, qaVars, retrVars, chunkVars, confVars, revalVars, followVars,
                   indexVars>>

\* the coroutine raises: the finally block releases the permit
Raise(c) ==
    /\ cstate[c] = "running"
    /\ SetGate(release(Gate(sem_value, waiters, [cstate EXCEPT ![c] = "raised"])))
    /\ generating' = [generating EXCEPT ![c] = FALSE]
    /\ UNCHANGED <<started, citeVars, qaVars, retrVars, chunkVars, confVars, revalVars, followVars,
                   indexVars>>

\* the caller's task is cancelled while the coroutine runs: CancelledError passes
\* through the finally block
CancelRunning(c) ==
    /\ cstate[c] = "running"
    /\ SetGate(release(Gate(sem_value, waiters, [cstate EXCEPT ![c] = "cancelled"])))
    /\ generating' = [generating EXCEPT ![c] = FALSE]
    /\ UNCHANGED <<started, citeVars, qaVars, retrVars, chunkVars, confVars, revalVars, followVars,
                   indexVars>>

NextGate ==
    \E c \in Callers :
        \/ Acquire(c)
        \/ Resume(c)
        \/ Timeout(c)
        \/ CancelWaiting(c)
        \/ StartGeneration(c)
        \/ EndGeneration(c)
        \/ Return(c)
        \/ Raise(c)
        \/ CancelRunning(c)

SpecGate == InitGate /\ [][NextGate]_vars

\* the event loop runs a task whose future is resolved, and fires a timer that is due
SpecGateFair ==
    /\ InitGate
    /\ [][NextGate]_vars
    /\ \A c \in Callers : WF_vars(Timeout(c)) /\ WF_vars(Resume(c))

\* ------------------------------------------- multi-document retrieval
InitRetr ==
    /\ pc = "retrieving"
    /\ answer = <<>>
    /\ chunks = <<>>
    /\ validation = NoValidation
    /\ GateIdle
    /\ QAIdle
    /\ question \in Questions
    /\ index \in IndexContents
    /\ db_chunks \in ChunkTables
    /\ figures \in SUBSET AllFigureRows
    /\ search = [d \in DocIds |-> Pending]
    /\ retrieval = NoRetrieval
    /\ calls = [d \in DocIds |-> NoCall]
    /\ ChunkIdle
    /\ ConfIdle
    /\ RevalIdle
    /\ FollowIdle
    /\ IndexIdle

\* one of the gathered retrieve_single tasks runs to its end
RetrieveSingle(d) ==
    /\ pc = "retrieving"
    /\ search[d].status = "pending"
    /\ \E e \in EmbeddingOutcomes, i \in IndexOutcomes :
           /\ search' = [search EXCEPT ![d] = retrieve_single(e, i, index[d])]
           /\ calls' = [calls EXCEPT ![d] = SearchCall(e, search_similar(e, i, index[d]))]
    /\ UNCHANGED <<question, index, db_chunks, figures, retrieval, citeVars, gateVars, qaVars,
                   chunkVars, confVars, revalVars, followVars, indexVars>>

\* the gather is complete: the rest of retrieve_from_documents
BuildResult ==
    /\ pc = "retrieving"
    /\ \A d \in DocIds : search[d].status = "done"
    /\ retrieval' = build_retrieval(question, search, db_chunks, figures)
    /\ pc' = "returned"
    /\ UNCHANGED <<question, index, db_chunks, figures, search, calls, answer, chunks,
                   validation, gateVars, qaVars, chunkVars, confVars, revalVars, followVars, indexVars>>

NextRetr == (\E d \in DocIds : RetrieveSingle(d)) \/ BuildResult

SpecRetr == InitRetr /\ [][NextRetr]_vars

\* ------------------------------------------------------------ chunking
InitChunk ==
    /\ pc = "pages"
    /\ answer = <<>>
    /\ chunks = <<>>
    /\ validation = NoValidation
    /\ GateIdle
    /\ QAIdle
    /\ RetrIdle
    /\ pages \in PageSequences
    /\ doc_chunks = <<>>
    /\ StepsIdle
    /\ ConfIdle
    /\ RevalIdle
    /\ FollowIdle
    /\ IndexIdle

ChunkDocument ==
    /\ pc = "pages"
    /\ doc_chunks' = chunk_document(pages)
    /\ pc' = "chunked"
    /\ UNCHANGED <<pages, stack, segments, merged, running, cursor, assembly, steps, answer,
                   chunks, validation, gateVars, qaVars, retrVars, confVars, revalVars, followVars,
                   indexVars>>

NextChunk == ChunkDocument

SpecChunk == InitChunk /\ [][NextChunk]_vars

\* ---------------------------------------------- chunking, step by step
otherVars == <<answer, chunks, validation, gateVars, qaVars, retrVars, confVars, revalVars,
               followVars, indexVars>>

InitSteps ==
    /\ pc = "called"
    /\ answer = <<>>
    /\ chunks = <<>>
    /\ validation = NoValidation
    /\ GateIdle
    /\ QAIdle
    /\ RetrIdle
    /\ pages = <<>>
    /\ doc_chunks = <<>>
    /\ StepsIdle
    /\ ConfIdle
    /\ RevalIdle
    /\ FollowIdle
    /\ IndexIdle

\* the call: the pages of a document, numbered from 1
Call ==
    /\ pc = "called"
    /\ \E doc \in Documents : pages' = PagesOf(doc, 1, FALSE)
    /\ pc' = "begin"
    /\ steps' = steps + 1
    /\ UNCHANGED <<doc_chunks, stack, segments, merged, running, cursor, assembly, otherVars>>

Top == stack[Len(stack)]

Pop == SubSeq(stack, 1, Len(stack) - 1)

\* chunk_document up to the call of split_by_separators
BeginChunking ==
    /\ pc = "begin"
    /\ LET c == Concatenate(SortPages(pages), <<>>, NoPageMarkers)
           e == Enter(c.full_text, separators, 0)
       IN IF pages = <<>> \/ StripText(c.full_text) = <<>>
          THEN /\ pc' = "chunked"
               /\ UNCHANGED <<stack, segments>>
          ELSE /\ pc' = "split"
               /\ stack' = e.push
               /\ segments' = e.emit
    /\ steps' = steps + 1
    /\ UNCHANGED <<pages, doc_chunks, merged, running, cursor, assembly, otherVars>>

\* one iteration of the loop over the parts
SplitPart ==
    /\ pc = "split"
    /\ stack # <<>>
    /\ Top.kind = "parts"
    /\ Top.i <= Len(Top.parts)
    /\ LET f == Top
           part == IF f.i < Len(f.parts) THEN f.parts[f.i] \o SepText(f.sep) ELSE f.parts[f.i]
           advanced == Append(Pop, [f EXCEPT !.i = f.i + 1])
           e == Enter(part, f.remaining_seps, f.depth + 1)
       IN IF StripText(f.parts[f.i]) = <<>>
          THEN stack' = advanced /\ UNCHANGED segments
          ELSE IF estimate_tokens(part) <= MAX_CHUNK_SIZE \/ f.remaining_seps = <<>>
          THEN IF estimate_tokens(part) > MAX_CHUNK_SIZE /\ f.remaining_seps = <<>>
               THEN stack' = Append(advanced, WindowsFrame(part, f.depth)) /\ UNCHANGED segments
               ELSE stack' = advanced /\ segments' = Append(segments, part)
          ELSE stack' = advanced \o e.push /\ segments' = segments \o e.emit
    /\ steps' = steps + 1
    /\ UNCHANGED <<pc, pages, doc_chunks, merged, running, cursor, assembly, otherVars>>

\* the loop over the parts is over: return result
SplitReturn ==
    /\ pc = "split"
    /\ stack # <<>>
    /\ Top.kind = "parts"
    /\ Top.i > Len(Top.parts)
    /\ stack' = Pop
    /\ steps' = steps + 1
    /\ UNCHANGED <<pc, pages, doc_chunks, segments, merged, running, cursor, assembly, otherVars>>

\* one iteration of the loop of _fallback_split
FallbackWindow ==
    /\ pc = "split"
    /\ stack # <<>>
    /\ Top.kind = "windows"
    /\ Top.from < CharLen(Top.text)
    /\ LET part == Slice(Top.text, Top.from, Top.from + tokens_to_chars(MAX_CHUNK_SIZE))
       IN segments' = IF part # <<>> THEN Append(segments, part) ELSE segments
    /\ stack' = Append(Pop, [Top EXCEPT !.from = Top.from + fallback_step])
    /\ steps' = steps + 1
    /\ UNCHANGED <<pc, pages, doc_chunks, merged, running, cursor, assembly, otherVars>>

FallbackReturn ==
    /\ pc = "split"
    /\ stack # <<>>
    /\ Top.kind = "windows"
    /\ Top.from >= CharLen(Top.text)
    /\ stack' = Pop
    /\ steps' = steps + 1
    /\ UNCHANGED <<pc, pages, doc_chunks, segments, merged, running, cursor, assembly, otherVars>>

\* split_by_separators has returned: merge_small_chunks starts
BeginMerge ==
    /\ pc = "split"
    /\ stack = <<>>
    /\ pc' = "merge"
    /\ cursor' = 0
    /\ merged' = <<>>
    /\ running' = <<>>
    /\ steps' = steps + 1
    /\ UNCHANGED <<pages, doc_chunks, stack, segments, assembly, otherVars>>

MergeSegment ==
    /\ pc = "merge"
    /\ cursor < Len(segments)
    /\ LET m == MergeOne(merged, running, segments[cursor + 1], MIN_CHUNK_SIZE \div 2)
       IN merged' = m.result /\ running' = m.current
    /\ cursor' = cursor + 1
    /\ steps' = steps + 1
    /\ UNCHANGED <<pc, pages, doc_chunks, stack, segments, assembly, otherVars>>

\* merge_small_chunks returns: create_overlapping_chunks starts
EndMerge ==
    /\ pc = "merge"
    /\ cursor = Len(segments)
    /\ merged' = IF running # <<>> THEN Append(merged, running) ELSE merged
    /\ pc' = "assemble"
    /\ cursor' = 0
    /\ assembly' = ChunkerState(<<>>, <<>>, 0, 0, 0, <<>>)
    /\ steps' = steps + 1
    /\ UNCHANGED <<pages, doc_chunks, stack, segments, running, otherVars>>

AssembleSegment ==
    /\ pc = "assemble"
    /\ cursor < Len(merged)
    /\ assembly' = AddSegment(assembly, merged[cursor + 1], OVERLAP_SIZE,
                              Concatenate(SortPages(pages), <<>>, NoPageMarkers).page_markers)
    /\ cursor' = cursor + 1
    /\ steps' = steps + 1
    /\ UNCHANGED <<pc, pages, doc_chunks, stack, segments, merged, running, otherVars>>

EndAssemble ==
    /\ pc = "assemble"
    /\ cursor = Len(merged)
    /\ doc_chunks' = FinalChunk(assembly,
                                Concatenate(SortPages(pages), <<>>, NoPageMarkers).page_markers)
    /\ pc' = "chunked"
    /\ steps' = steps + 1
    /\ UNCHANGED <<pages, stack, segments, merged, running, cursor, assembly, otherVars>>

NextSteps ==
    \/ Call
    \/ BeginChunking
    \/ SplitPart
    \/ SplitReturn
    \/ FallbackWindow
    \/ FallbackReturn
    \/ BeginMerge
    \/ MergeSegment
    \/ EndMerge
    \/ AssembleSegment
    \/ EndAssemble

\* a call that has not returned takes its next step
Step == pc # "chunked" /\ steps' = steps + 1

SpecSteps == InitSteps /\ [][NextSteps]_vars /\ WF_steps(Step)

\* ------------------------------------------- the confidence on every input
MaxScores == 2

MaxCount == 3

\* retrieval scores in hundredths: below 0, inside the band up to 0.9, above it, above 1.0
ScoreValues == {-20, 45, 95, 120}

ScoreLists == SeqsUpTo(ScoreValues, MaxScores)

\* the counts of cited chunks, cited pages and documents
Counts == 0 .. MaxCount

\* The counts of retrieved chunks.  With these no score lies exactly halfway between two
\* hundredths, where round(x, 2) would be decided by the error of the binary fraction.
RetrievedCounts == {0, 1, 2, 3, 5}

\* the inputs that differ from the given ones in required_regeneration alone or in
\* num_chunks_cited alone
Variations(inputs) ==
    {[inputs EXCEPT !.required_regeneration = ~@]}
    \cup {[inputs EXCEPT !.num_chunks_cited = c] : c \in Counts \ {inputs.num_chunks_cited}}

InitConf ==
    /\ pc = "confidence"
    /\ answer = <<>>
    /\ chunks = <<>>
    /\ validation = NoValidation
    /\ GateIdle
    /\ QAIdle
    /\ RetrIdle
    /\ ChunkIdle
    /\ scored = <<>>
    /\ RevalIdle
    /\ FollowIdle
    /\ IndexIdle

\* compute_confidence is called on some inputs
ComputeConfidence ==
    /\ pc = "confidence"
    /\ scored = <<>>
    /\ \E s \in ScoreLists, r \in RetrievedCounts, c, p, d \in Counts, v, g \in BOOLEAN :
          scored' = <<Scored(ConfidenceInputs(s, r, c, p, d, v, g))>>
    /\ UNCHANGED <<citeVars, gateVars, qaVars, retrVars, chunkVars, revalVars, followVars, indexVars>>

\* it is called again on inputs that differ from the first in one field
ComputeConfidenceAgain ==
    /\ pc = "confidence"
    /\ Len(scored) = 1
    /\ \E inputs \in Variations(scored[1].inputs) : scored' = Append(scored, Scored(inputs))
    /\ UNCHANGED <<citeVars, gateVars, qaVars, retrVars, chunkVars, revalVars, followVars, indexVars>>

NextConf == ComputeConfidence \/ ComputeConfidenceAgain

SpecConf == InitConf /\ [][NextConf]_vars

\* ------------------------------------------------- follow-up resolution
UserMessages ==
    {QAMessage("user", <<"What", "is", "the", "revenue", "?">>),
     QAMessage("user", <<"what", "is", "the", "revenue", "?">>)}

AssistantMessages ==
    {QAMessage("assistant", <<"Revenue", "was", "strong", ".">>),
     QAMessage("assistant", <<"it", "was", "strong", ".">>)}

\* the conversations of up to n exchanges of a question and its answer
RECURSIVE Conversations(_)
Conversations(n) ==
    IF n = 0 THEN {<<>>}
    ELSE LET shorter == Conversations(n - 1)
         IN shorter \cup {c \o <<u, a>> : c \in shorter, u \in UserMessages, a \in AssistantMessages}

FollowupQuestions ==
    {<<"How", "does", "it", "compare", "to", "last", "year", "?">>,
     <<"What", "is", "the", "revenue", "?">>,
     <<"what", "about", "cost", "?">>,
     <<"is", "that", "strong", "?">>,
     <<"what", "is", "it", "?">>,
     <<"compare", "the", "revenue", ".">>}

\* the processes that serve requests
Workers == {"w1", "w2"}

\* every entity a message of the conversations holds
MessageEntities == UNION {extract_entities(m.content) : m \in UserMessages \cup AssistantMessages}

\* string hashes are salted anew in every process: any order may be the one of a process
HashOrders ==
    {o \in [1 .. Cardinality(MessageEntities) -> MessageEntities] :
        \A e \in MessageEntities : \E i \in DOMAIN o : o[i] = e}

InitFollow ==
    /\ pc = "followup"
    /\ answer = <<>>
    /\ chunks = <<>>
    /\ validation = NoValidation
    /\ GateIdle
    /\ QAIdle
    /\ RetrIdle
    /\ ChunkIdle
    /\ ConfIdle
    /\ RevalIdle
    /\ followup_question \in FollowupQuestions
    /\ conversation \in Conversations(MaxExchanges)
    /\ hash_order \in [Workers -> HashOrders]
    /\ resolved = <<>>
    /\ IndexIdle

\* a worker resolves the question against the conversation
ResolveFollowup(w) ==
    /\ pc = "followup"
    /\ Len(resolved) < MaxCalls
    /\ resolved' = Append(resolved, resolve_followup(followup_question, conversation, hash_order[w]))
    /\ UNCHANGED <<citeVars, gateVars, qaVars, retrVars, chunkVars, confVars, revalVars,
                   followup_question, conversation, hash_order, indexVars>>

NextFollow == \E w \in Workers : ResolveFollowup(w)

SpecFollow == InitFollow /\ [][NextFollow]_vars

\* ------------------------------------ routes/retrieval.py: index_document_task
\* One document.  A row of db_rows is its id and its chunk_index; the id that
\* uuid4 gives to chunk i in the run of task t is <<t, i>>, the ids of an earlier indexing
\* are <<"old", i>>.
db_row(id, chunk_index) == [id |-> id, chunk_index |-> chunk_index]

\* the chunk_index values of the chunks chunk_document returns for the document
ChunkIndexes == {0, 1}

IndexTasks == {"t1", "t2"}

OldRows == {db_row(<<"old", i>>, i) : i \in ChunkIndexes}

RowIds(rows) == {r.id : r \in rows}

\* a task: its position, its db_rows, and the rows its uncommitted DELETE removed
IndexTask(at, db_rows, deleted) == [at |-> at, db_rows |-> db_rows, deleted |-> deleted]

InitIndex ==
    /\ pc = "indexing"
    /\ answer = <<>>
    /\ chunks = <<>>
    /\ validation = NoValidation
    /\ GateIdle
    /\ QAIdle
    /\ RetrIdle
    /\ ChunkIdle
    /\ ConfIdle
    /\ RevalIdle
    /\ FollowIdle
    /\ chunk_rows \in {{}, OldRows}
    /\ vectors = RowIds(chunk_rows)
    /\ task = [t \in IndexTasks |-> IndexTask("idle", {}, {})]

IndexUnchanged == UNCHANGED <<citeVars, gateVars, qaVars, retrVars, chunkVars, confVars, revalVars, followVars>>

\* the task starts: it fetches the pages and chunks them; without chunks it returns 0
BeginIndexing(t) ==
    /\ task[t].at = "idle"
    /\ \E has_chunks \in BOOLEAN :
          task' = [task EXCEPT ![t].at = IF has_chunks THEN "delete_vectors" ELSE "returned"]
    /\ UNCHANGED <<vectors, chunk_rows>>
    /\ IndexUnchanged

\* delete_document_vectors: the index drops the points of the document, or the call raises
\* and the handler rolls back and re-raises
DeleteVectors(t) ==
    /\ task[t].at = "delete_vectors"
    /\ \E raised \in BOOLEAN :
          IF raised
          THEN /\ task' = [task EXCEPT ![t].at = "raised"]
               /\ UNCHANGED vectors
          ELSE /\ vectors' = {}
               /\ task' = [task EXCEPT ![t].at = "delete_chunks"]
    /\ UNCHANGED chunk_rows
    /\ IndexUnchanged

\* db.execute(delete(DocumentChunk)...): the rows are removed inside the transaction of the
\* task; the statement waits while another transaction holds rows it deleted
DeleteChunks(t) ==
    /\ task[t].at = "delete_chunks"
    /\ \A u \in IndexTasks \ {t} : task[u].deleted = {}
    /\ task' = [task EXCEPT ![t].at = "embed", ![t].deleted = chunk_rows]
    /\ UNCHANGED <<vectors, chunk_rows>>
    /\ IndexUnchanged

\* embed_chunks: every chunk gets an embedding or a failure result; db_rows and
\* vector_points hold the chunks that got one
EmbedChunks(t) ==
    /\ task[t].at = "embed"
    /\ \E embedded \in SUBSET ChunkIndexes :
          task' = [task EXCEPT ![t].db_rows = {db_row(<<t, i>>, i) : i \in embedded},
                               ![t].at = IF embedded = {} THEN "close" ELSE "store_vectors"]
    /\ UNCHANGED <<vectors, chunk_rows>>
    /\ IndexUnchanged

\* store_vectors: the points are upserted, or the call raises and the handler rolls back
StoreVectors(t) ==
    /\ task[t].at = "store_vectors"
    /\ \E raised \in BOOLEAN :
          IF raised
          THEN /\ task' = [task EXCEPT ![t].at = "raised", ![t].deleted = {}]
               /\ UNCHANGED vectors
          ELSE /\ vectors' = vectors \cup RowIds(task[t].db_rows)
               /\ task' = [task EXCEPT ![t].at = "insert_chunks"]
    /\ UNCHANGED chunk_rows
    /\ IndexUnchanged

\* the rows left after the DELETE of the transaction, and db_rows without the rows whose
\* chunk_index is taken (on_conflict_do_nothing)
Committed(rows, deleted, db_rows) ==
    LET kept == rows \ deleted
    IN kept \cup {r \in db_rows : \A k \in kept : k.chunk_index # r.chunk_index}

\* the insert and db.commit(), or one of them raises and the handler rolls back
InsertChunks(t) ==
    /\ task[t].at = "insert_chunks"
    /\ \E raised \in BOOLEAN :
          IF raised
          THEN /\ task' = [task EXCEPT ![t].at = "raised", ![t].deleted = {}]
               /\ UNCHANGED chunk_rows
          ELSE /\ chunk_rows' = Committed(chunk_rows, task[t].deleted, task[t].db_rows)
               /\ task' = [task EXCEPT ![t].at = "returned", ![t].deleted = {}]
    /\ UNCHANGED vectors
    /\ IndexUnchanged

\* no chunk was embedded: the task returns 0 without a commit, and leaving the session
\* block discards its transaction
CloseSession(t) ==
    /\ task[t].at = "close"
    /\ task' = [task EXCEPT ![t].at = "returned", ![t].deleted = {}]
    /\ UNCHANGED <<vectors, chunk_rows>>
    /\ IndexUnchanged

NextIndex ==
    \E t \in IndexTasks :
        \/ BeginIndexing(t)
        \/ DeleteVectors(t)
        \/ DeleteChunks(t)
        \/ EmbedChunks(t)
        \/ StoreVectors(t)
        \/ InsertChunks(t)
        \/ CloseSession(t)

SpecIndex == InitIndex /\ [][NextIndex]_vars

\* --------------------------------------------------- citation properties
\* the pages named by the citation markers of a text
PagesNamedIn(text) ==
    UNION {PyRange(text[i].s, text[i].e) : i \in {j \in 1 .. Len(text) : IsCitation(text[j])}}

NoDuplicates(seq) == \A i, j \in 1 .. Len(seq) : i # j => seq[i] # seq[j]

\* C1: whenever the validator returns valid=true, every citation marker of the returned
\* answer names only pages of the valid-pages set, for every answer (with or without a
\* refusal phrase) and every chunk list.
C1_ValidAnswerCitesOnlyValidPages ==
    (pc = "validated" /\ validation.valid)
        => \A p \in PagesNamedIn(validation.answer) :
               \E i \in 1 .. Len(chunks) : chunks[i].page_start <= p /\ p <= chunks[i].page_end

\* C2: whenever the validator returns valid=true, every page of cited_pages is in the
\* valid-pages set of the supplied chunks, and cited_pages holds no page twice.
C2_CitedPagesAreValid ==
    (pc = "validated" /\ validation.valid)
        => /\ \A p \in SeqToSet(validation.cited_pages) :
                  \E i \in 1 .. Len(chunks) : chunks[i].page_start <= p /\ p <= chunks[i].page_end
           /\ NoDuplicates(validation.cited_pages)

\* C2 witness: a non-refusal answer citing a page outside the chunks was repaired and
\* returned valid with a cited page.
C2_Witness ==
    /\ pc = "validated"
    /\ validation.valid
    /\ validation.cited_pages # <<>>
    /\ ~is_refusal_answer(answer)
    /\ \E p \in PagesNamedIn(answer) :
           \A i \in 1 .. Len(chunks) : p < chunks[i].page_start \/ p > chunks[i].page_end

\* ------------------------------------------------------- gate properties
HoldingCallers == {c \in Callers : cstate[c] \in Holding}

\* C4: at most MAX_CONCURRENT_LLM callers run their wrapped coroutine at the same time,
\* hence at most as many generation calls are in flight.
C4_AtMostTwoRunning ==
    /\ Cardinality({c \in Callers : cstate[c] = "running"}) <= MAX_CONCURRENT_LLM
    /\ Cardinality({c \in Callers : generating[c]}) <= MAX_CONCURRENT_LLM

\* C4 witness: two callers have a generation call in flight while a third one waits.
C4_Witness ==
    /\ Cardinality({c \in Callers : cstate[c] = "running" /\ generating[c]}) = MAX_CONCURRENT_LLM
    /\ \E c \in Callers : cstate[c] = "waiting"

\* C5: the gate never leaks a slot: free permits plus callers holding a slot is always
\* MAX_CONCURRENT_LLM, and once every caller has ended all permits are free.
C5_NoSlotLeak ==
    /\ sem_value + Cardinality(HoldingCallers) = MAX_CONCURRENT_LLM
    /\ (\A c \in Callers : cstate[c] \in Ended) => sem_value = MAX_CONCURRENT_LLM

\* C5 witness: every caller has ended, one by an exception of its coroutine, one by
\* cancellation and one by the timeout of its wait.
C5_Witness ==
    /\ \A c \in Callers : cstate[c] \in Ended
    /\ \E c \in Callers : cstate[c] = "raised"
    /\ \E c \in Callers : cstate[c] = "cancelled"
    /\ \E c \in Callers : cstate[c] = "rejected"

\* C6: a caller whose wait times out ends with QueueFullError: its coroutine is never
\* started, the permit count is as before, and it stays rejected (no internal retry);
\* and no caller waits for ever: a waiting caller gets to start its coroutine or is
\* rejected (or was cancelled by its own caller).
C6_RejectedNotWaitingForever ==
    /\ [][\A c \in Callers :
            /\ (cstate[c] = "waiting" /\ cstate'[c] = "rejected")
                   => (sem_value' = sem_value /\ HoldingCallers' = HoldingCallers)
            /\ cstate'[c] = "rejected" => ~started'[c]
            /\ cstate[c] = "rejected" => cstate'[c] = "rejected"]_vars
    /\ \A c \in Callers :
           (cstate[c] = "waiting") ~> (started[c] \/ cstate[c] \in {"rejected", "cancelled"})

\* C6 witness: a caller was rejected while both slots were held by running callers.
C6_Witness ==
    /\ \E c \in Callers : cstate[c] = "rejected" /\ ~started[c]
    /\ Cardinality({c \in Callers : cstate[c] = "running"}) = MAX_CONCURRENT_LLM
    /\ sem_value = 0

\* ------------------------------------------------- retry-loop properties
Last(seq) == seq[Len(seq)]

\* C3: one request makes at most MAX_RETRIES + 1 generation calls, every failed
\* generation and every failed validation uses up one of them, the request is accepted
\* at the first attempt that validates and fails after the third attempt that does not.
C3_AtMostThreeAttempts ==
    /\ gen_calls <= MAX_RETRIES + 1
    /\ gen_calls = Len(history) + (IF pc = "validate" THEN 1 ELSE 0)
    /\ \A i \in 1 .. (Len(history) - 1) : history[i].outcome # "accepted"
    /\ pc \in {"attempt", "validate"}
           => (Len(history) <= MAX_RETRIES /\ \A i \in 1 .. Len(history) : history[i].outcome # "accepted")
    /\ (pc = "done" /\ chunks # <<>>)
           => IF Last(history).outcome = "accepted"
              THEN qa_result.success
              ELSE ~qa_result.success /\ Len(history) = MAX_RETRIES + 1

\* C3 witness: a request accepted at its third attempt, after a failed generation and a
\* failed validation.
C3_Witness ==
    /\ pc = "done"
    /\ qa_result.success
    /\ gen_calls = MAX_RETRIES + 1
    /\ history[1].outcome = "generation_failed"
    /\ history[2].outcome = "validation_failed"

C8_FailureRecordsLastError ==
    (pc = "done" /\ ~qa_result.success) => Tail(qa_result.error) = Last(history).error

\* the positions of the supplied chunks whose page range meets the cited pages
CitedPositions ==
    {i \in 1 .. Len(chunks) :
        \E p \in SeqToSet(qa_result.cited_pages) : chunks[i].page_start <= p /\ p <= chunks[i].page_end}

\* C9: on success the sources are exactly the supplied chunks whose page range meets the
\* cited pages, in supplied order, with their content unchanged and their page range
\* narrowed to the smallest and largest cited page inside the chunk, in both variants.
C9_SourcesNarrowedToCitedPages ==
    (pc = "done" /\ qa_result.success)
        => /\ Len(qa_result.sources) = Cardinality(CitedPositions)
           /\ \A k \in 1 .. Len(qa_result.sources) :
                  LET i == SortedSeq(CitedPositions)[k]
                      src == qa_result.sources[k]
                      inside == {p \in SeqToSet(qa_result.cited_pages) :
                                    chunks[i].page_start <= p /\ p <= chunks[i].page_end}
                  IN /\ src.chunk_id = chunks[i].chunk_id
                     /\ src.document_id = chunks[i].document_id
                     /\ src.content = chunks[i].content
                     /\ \A p \in inside : src.page_start <= p /\ p <= src.page_end
                     /\ src.page_start \in inside
                     /\ src.page_end \in inside

\* ---------------------------------------------------- retrieval properties
\* the result the same call returns when the index query for B succeeds
WithBSucceeding ==
    build_retrieval(question,
                    [search EXCEPT !["B"] = [status |-> "done", results |-> index["B"], error |-> "none"]],
                    db_chunks, figures)

\* document A's part of the result is what it is when B's query succeeds
AUnaffected ==
    /\ ("A" \in DOMAIN retrieval.chunks_by_doc) = ("A" \in DOMAIN WithBSucceeding.chunks_by_doc)
    /\ "A" \in DOMAIN retrieval.chunks_by_doc
           => /\ retrieval.chunks_by_doc["A"] = WithBSucceeding.chunks_by_doc["A"]
              /\ retrieval.scores_by_doc["A"] = WithBSucceeding.scores_by_doc["A"]

BIndexQueryRaised == pc = "returned" /\ search["B"].error = "IndexError"

\* C10 as stated: if the index query for B raises, A's chunks and scores are as when B
\* succeeds and B is absent from chunks_by_doc or mapped to an empty list, for every
\* question and every set of figure records.
C10_FailedDocumentAbsentOrEmpty ==
    BIndexQueryRaised
        => /\ AUnaffected
           /\ ("B" \notin DOMAIN retrieval.chunks_by_doc \/ retrieval.chunks_by_doc["B"] = <<>>)

\* C10 amended: if the index query for B raises, A's chunks and scores are as when B
\* succeeds, and B is absent from chunks_by_doc unless the question is an image question
\* and figure records of B are stored; B then maps to the synthetic chunks of exactly
\* these figures, each scored FIGURE_DEFAULT_SCORE, and to no chunk of the index.
C10_FailedDocumentHoldsOnlyFigures ==
    BIndexQueryRaised
        => /\ AUnaffected
           /\ ("B" \in DOMAIN retrieval.chunks_by_doc)
                  = (is_likely_image_question(question) /\ \E f \in figures : f.document_id = "B")
           /\ "B" \in DOMAIN retrieval.chunks_by_doc
                  => /\ \A i \in 1 .. Len(retrieval.chunks_by_doc["B"]) :
                            retrieval.chunks_by_doc["B"][i].is_figure
                     /\ {c.figure_id : c \in SeqToSet(retrieval.chunks_by_doc["B"])}
                            = {f.id : f \in {g \in figures : g.document_id = "B"}}
                     /\ Len(retrieval.chunks_by_doc["B"])
                            = Cardinality({g \in figures : g.document_id = "B"})
                     /\ \A i \in 1 .. Len(retrieval.scores_by_doc["B"]) :
                            retrieval.scores_by_doc["B"][i] = FIGURE_DEFAULT_SCORE

\* C10 witness: B's index query raised, the call returned A's two retrieved chunks, and
\* B holds the synthetic chunk of its figure.
C10_Witness ==
    /\ BIndexQueryRaised
    /\ "A" \in DOMAIN retrieval.chunks_by_doc
    /\ Len(retrieval.chunks_by_doc["A"]) >= 2
    /\ index["B"] # <<>>
    /\ "B" \in DOMAIN retrieval.chunks_by_doc
    /\ retrieval.chunks_by_doc["B"] # <<>>

\* the search_similar calls whose embedding request failed
FailedEmbeddingCalls == {d \in DocIds : calls[d].embedding \in EmbeddingOutcomes \ {"ok"}}

\* C11: whatever way the embedding of the query fails (HTTP error status, request
\* error, malformed response), search_similar raises nothing, returns an empty list
\* and does not query the index.
C11_EmbeddingFailureGivesEmptyResult ==
    \A d \in FailedEmbeddingCalls :
        /\ calls[d].raised = "none"
        /\ calls[d].results = <<>>
        /\ ~calls[d].index_queried

\* ----------------------------------------------------- chunking properties
PageNumbers == {pages[i].page_number : i \in 1 .. Len(pages)}

InPageRange(p) == \E lo, hi \in PageNumbers : lo <= p /\ p <= hi

\* some fragment of the document's text went through the force-split
ForceSplitHappened ==
    LET c == Concatenate(SortPages(pages), <<>>, NoPageMarkers)
    IN \E i \in DOMAIN split_fragments(c.full_text, separators, 0) :
           split_fragments(c.full_text, separators, 0)[i].forced

\* C12: every chunk returned for a non-empty page sequence, the first chunk included,
\* has page_start <= page_end, both within the smallest and largest page number.
C12_ChunkPagesWithinDocument ==
    pc = "chunked"
        => \A i \in 1 .. Len(doc_chunks) :
               /\ doc_chunks[i].page_start <= doc_chunks[i].page_end
               /\ InPageRange(doc_chunks[i].page_start)
               /\ InPageRange(doc_chunks[i].page_end)

\* C13: the chunks of one call carry chunk_index 0, 1, ..., n-1 in list order.
C13_ChunkIndexContiguous ==
    pc = "chunked" => \A i \in 1 .. Len(doc_chunks) : doc_chunks[i].chunk_index = i - 1

\* C13 witness: a call that force-split a fragment and returned three chunks or more.
C13_Witness ==
    /\ pc = "chunked"
    /\ ForceSplitHappened
    /\ Len(doc_chunks) >= 3

\* the characters of a text that are no whitespace, as runs: adjacent atoms of one kind
\* are one run
RECURSIVE Squeeze(_)
Squeeze(t) ==
    IF t = <<>> THEN <<>>
    ELSE IF IsWhitespace(Head(t)) THEN Squeeze(Tail(t))
    ELSE LET rest == Squeeze(Tail(t))
         IN IF rest # <<>> /\ Head(rest).k = Head(t).k
            THEN <<Atom(Head(t).k, Head(t).n + Head(rest).n)>> \o Tail(rest)
            ELSE <<Head(t)>> \o rest

\* a chunk's content without the overlap it was seeded with
WithoutOverlap(chunk) ==
    LET body == Squeeze(chunk.content)
    IN Slice(body, CharLen(Squeeze(chunk.overlap)), CharLen(body))

RECURSIVE ConcatWithoutOverlaps(_)
ConcatWithoutOverlaps(cs) ==
    IF cs = <<>> THEN <<>> ELSE WithoutOverlap(Head(cs)) \o ConcatWithoutOverlaps(Tail(cs))

\* the concatenated page text of the call
FullText == Concatenate(SortPages(pages), <<>>, NoPageMarkers).full_text

\* the number of characters of one kind in a text
RECURSIVE CountKind(_, _)
CountKind(t, k) ==
    IF t = <<>> THEN 0
    ELSE (IF Head(t).k = k THEN Head(t).n ELSE 0) + CountKind(Tail(t), k)

\* C14: the chunk contents without their seeded overlaps, concatenated in index order,
\* are the concatenated page text up to whitespace: no character that is no whitespace
\* is lost, duplicated or reordered, force-split or not.
C14_ChunksReconstructText ==
    pc = "chunked"
        => /\ \A k \in {"blob", "word", "dot"} :
                  CountKind(ConcatWithoutOverlaps(doc_chunks), k) = CountKind(FullText, k)
           /\ Squeeze(ConcatWithoutOverlaps(doc_chunks)) = Squeeze(FullText)

OnlyWhitespace(t) == \A i \in 1 .. Len(t) : IsWhitespace(t[i])

\* C15: chunk_document returns, for every page sequence, pages of 0 characters or not,
\* chunks whose content is neither empty nor only whitespace; a document made only of
\* whitespace yields zero chunks.
C15_NoEmptyChunk ==
    pc = "chunked"
        => /\ \A i \in 1 .. Len(doc_chunks) : ~OnlyWhitespace(doc_chunks[i].content)
           /\ (\A i \in 1 .. Len(pages) : OnlyWhitespace(pages[i].text)) => doc_chunks = <<>>

\* C15 witness: a three-page document whose page 2 has 0 characters was chunked.
C15_Witness ==
    /\ pc = "chunked"
    /\ PageNumbers = {1, 2, 3}
    /\ \E i \in 1 .. Len(pages) : pages[i].page_number = 2 /\ pages[i].text = <<>>
    /\ \E i \in 1 .. Len(pages) : pages[i].page_number = 1 /\ pages[i].text # <<>>
    /\ \E i \in 1 .. Len(pages) : pages[i].page_number = 3 /\ pages[i].text # <<>>
    /\ doc_chunks # <<>>

\* some fragment was force-split into more than one window
WindowsOverlapped ==
    \E i \in DOMAIN split_fragments(FullText, separators, 0) :
        /\ split_fragments(FullText, separators, 0)[i].forced
        /\ split_fragments(FullText, separators, 0)[i].depth = Len(separators) - 1
        /\ Len(_fallback_split(split_fragments(FullText, separators, 0)[i].text)) > 1

\* the step-by-step computation returns what chunk_document returns
StepsAgree ==
    /\ (pc \in {"merge", "assemble"}) => segments = split_by_separators(FullText, separators, 0)
    /\ pc = "assemble" => merged = merge_small_chunks(segments, MIN_CHUNK_SIZE \div 2)
    /\ pc = "chunked" => doc_chunks = chunk_document(pages)

\* some step of the call is enabled
CanStep ==
    \/ pc \in {"called", "begin"}
    \/ pc = "split" /\ (stack = <<>> \/ Top.kind \in {"parts", "windows"})
    \/ pc = "merge" /\ cursor <= Len(segments)
    \/ pc = "assemble" /\ cursor <= Len(merged)

\* C16: chunk_document terminates.  The split descends at most MAX_RECURSION_DEPTH
\* levels and at most the levels of the separators, the force-split advances by the
\* strictly positive step max size - overlap, the merge and the assembly pass from one
\* fragment to the next, and every call reaches its return.
C16_ChunkingTerminates ==
    /\ [](\A i \in 1 .. Len(stack) :
              /\ stack[i].depth < Len(separators)
              /\ stack[i].depth <= MAX_RECURSION_DEPTH
              /\ stack[i].from <= CharLen(stack[i].text) + fallback_step)
    /\ [][FallbackWindow
              => /\ stack'[Len(stack')].from
                        = Top.from + tokens_to_chars(MAX_CHUNK_SIZE) - tokens_to_chars(OVERLAP_SIZE)
                 /\ stack'[Len(stack')].from > Top.from]_vars
    /\ [][(MergeSegment \/ AssembleSegment) => cursor' = cursor + 1]_vars
    /\ [](pc # "chunked" => CanStep)
    /\ <>(pc = "chunked")

\* C16 witness: a call that went down to the last separator, force-split a fragment
\* into several windows, and returned several chunks.
C16_Witness ==
    /\ pc = "chunked"
    /\ WindowsOverlapped
    /\ Len(segments) >= 2
    /\ Len(doc_chunks) >= 2

\* --------------------------------------------------- confidence properties
Calls == 1 .. Len(scored)

\* call j was made on the inputs of call i with num_chunks_cited raised, not above
\* num_chunks_retrieved
RaisedCited(i, j) ==
    /\ scored[j].inputs = [scored[i].inputs EXCEPT !.num_chunks_cited = scored[j].inputs.num_chunks_cited]
    /\ scored[i].inputs.num_chunks_cited < scored[j].inputs.num_chunks_cited
    /\ scored[j].inputs.num_chunks_cited <= scored[i].inputs.num_chunks_retrieved

\* call i was made without regeneration and call j on the same inputs with it
RegenerationAdded(i, j) ==
    /\ ~scored[i].inputs.required_regeneration
    /\ scored[j].inputs = [scored[i].inputs EXCEPT !.required_regeneration = TRUE]

C18_RegenerationLowersByPenalty ==
    \A i, j \in Calls : RegenerationAdded(i, j) => scored[j].value = scored[i].value - 15

\* C19: raising num_chunks_cited, not above num_chunks_retrieved, with every other field
\* fixed, never lowers the value returned; the coverage term and the multi-document bonus
\* both depend on num_chunks_cited.
C19_MoreCitedNeverLowers ==
    \A i, j \in Calls : RaisedCited(i, j) => scored[i].value <= scored[j].value

\* two documents: the raise brought the multi-document bonus and a higher value
C19_Witness ==
    \E i, j \in Calls :
        /\ RaisedCited(i, j)
        /\ scored[i].inputs.citation_valid
        /\ scored[i].inputs.num_documents > 1
        /\ doc_score(scored[i].inputs) = 0
        /\ doc_score(scored[j].inputs) > 0
        /\ scored[i].value < scored[j].value

\* C20: with citation_valid=true and num_chunks_cited=0 the value returned is strictly
\* below 0.1, whatever the other fields.
C20_UncitedBelowTenth ==
    \A i \in Calls :
        (scored[i].inputs.citation_valid /\ scored[i].inputs.num_chunks_cited = 0)
            => scored[i].value < 10

\* ------------------------------------------------ round-trip properties
\* every citation of the text names valid pages only, stands right after a sentence
\* punctuation, and no two citations are adjacent or equal
CorrectlyCited(text, valid_pages) ==
    LET cites == {i \in 1 .. Len(text) : IsCitation(text[i])}
    IN /\ cites # {}
       /\ \A i \in cites : PyRange(text[i].s, text[i].e) \subseteq valid_pages
       /\ \A i \in cites : i > 1 /\ IsPunct(text[i - 1])
       /\ \A i, j \in cites : i # j => text[i] # text[j]

\* C21: a non-refusal answer whose citations name valid pages only and are correctly
\* formatted is returned unchanged with valid=true; and an answer that the validator
\* returned as valid is returned unchanged with valid=true when it is validated again.
C21_ValidAnswerRoundTrips ==
    /\ (pc # "input" /\ ~is_refusal_answer(answer)
            /\ CorrectlyCited(answer, get_valid_page_range(chunks)))
        => (validation.valid /\ validation.answer = answer)
    /\ pc = "revalidated" => (revalidation.valid /\ revalidation.answer = validation.answer)

\* ------------------------------------------------- injection properties
NoCitationIn(text) == \A i \in 1 .. Len(text) : ~IsCitation(text[i])

\* the answer as it stands after the removal of invalid citations and the cleanup
Cleaned(a, cs) == clean_citation_formatting(remove_invalid_citations(a, get_valid_page_range(cs)))

\* the answer is no refusal, the chunk list is not empty, and no citation is left after
\* the removal of invalid citations and the cleanup
NeedsInjection ==
    /\ pc = "validated"
    /\ chunks # <<>>
    /\ ~is_refusal_answer(answer)
    /\ NoCitationIn(remove_invalid_citations(answer, get_valid_page_range(chunks)))
    /\ NoCitationIn(Cleaned(answer, chunks))

\* the chunks that cover page p
Covering(cs, p) == {i \in 1 .. Len(cs) : cs[i].page_start <= p /\ p <= cs[i].page_end}

\* page p was seen before page q when the chunks are read in order, each from its first
\* page to its last
SeenBefore(cs, p, q) ==
    LET first(x) == CHOOSE i \in Covering(cs, x) : \A j \in Covering(cs, x) : i <= j
    IN first(p) < first(q) \/ (first(p) = first(q) /\ p < q)

\* p is the page covered by the largest number of chunks, the first seen among equals
MostCovered(cs, p) ==
    /\ Covering(cs, p) # {}
    /\ \A q \in Pages \ {p} :
          \/ Cardinality(Covering(cs, q)) < Cardinality(Covering(cs, p))
          \/ /\ Cardinality(Covering(cs, q)) = Cardinality(Covering(cs, p))
             /\ SeenBefore(cs, p, q)

\* the paragraph after is the paragraph before with the one citation [Page p] at its end,
\* in front of its last punctuation character or of an added full stop
CitedCopy(before, after, p) ==
    /\ Len(after) >= 2
    /\ after[Len(after) - 1] = PageCite(p)
    /\ IsPunct(after[Len(after)])
    /\ LET rest == SubSeq(after, 1, Len(after) - 2)
       IN /\ NoCitationIn(rest)
          /\ \/ before = rest \o <<after[Len(after)]>>
             \/ (before = rest /\ after[Len(after)] = Dot /\ ~IsPunct(before[Len(before)]))

C28_ValidCitationsStayValid ==
    (/\ pc = "validated"
     /\ ~is_refusal_answer(answer)
     /\ \A i \in 1 .. Len(answer) :
           IsCitation(answer[i]) => PyRange(answer[i].s, answer[i].e) \subseteq get_valid_page_range(chunks))
        => validation.valid

\* ------------------------------------------------ retry-hint properties
\* the validation errors of the attempts made so far, in order
RECURSIVE ValidationErrors(_)
ValidationErrors(h) ==
    IF h = <<>> THEN <<>>
    ELSE IF Head(h).outcome = "validation_failed"
         THEN <<Head(h).error>> \o ValidationErrors(Tail(h))
         ELSE ValidationErrors(Tail(h))

\* C23: while an attempt remains, the prompt is the first prompt (same system message,
\* same context) with one hint appended to the user message for every earlier attempt
\* whose validation failed, in order; each hint restates the error of that validation and
\* lists the valid pages; an attempt that failed in generation adds nothing.  In both
\* variants.
C23_HintAppendedAfterInvalidAttempt ==
    pc \in {"attempt", "validate"} =>
        LET errors == ValidationErrors(history)
        IN /\ messages.system = build_messages(chunks).system
           /\ Len(messages.user) = 1 + Len(errors)
           /\ messages.user[1] = build_messages(chunks).user[1]
           /\ \A i \in 1 .. Len(errors) :
                 /\ messages.user[i + 1][2] = errors[i]
                 /\ messages.user[i + 1][3] = SortedSeq(get_valid_page_range(chunks))

\* the third attempt of a multi-document request, after a failed validation and a failed
\* generation: the prompt carries the one hint
C23_Witness ==
    /\ pc = "attempt"
    /\ variant = "multi"
    /\ attempt = MAX_RETRIES
    /\ history[1].outcome = "validation_failed"
    /\ history[2].outcome = "generation_failed"
    /\ Len(messages.user) = 2

\* C24: in generate_multi_doc_answer a successful result has required_regeneration=true if
\* and only if an earlier attempt of the request failed citation validation, and its
\* confidence is the one computed with exactly that flag; attempts that failed only in
\* generation do not set it.
C24_RegenerationFlagIffValidationFailed ==
    (pc = "done" /\ variant = "multi" /\ qa_result.success) =>
        /\ qa_result.required_regeneration = (ValidationErrors(history) # <<>>)
        /\ chunks # <<>> =>
              /\ Len(scored) = 1
              /\ scored[1].inputs.required_regeneration = (ValidationErrors(history) # <<>>)
              /\ qa_result.confidence = scored[1].value

\* accepted after a failed generation and a failed validation, with a confidence that the
\* penalty lowered
C24_Witness ==
    /\ pc = "done"
    /\ variant = "multi"
    /\ qa_result.success
    /\ Len(history) = MAX_RETRIES + 1
    /\ history[1].outcome = "generation_failed"
    /\ history[2].outcome = "validation_failed"
    /\ qa_result.required_regeneration
    /\ qa_result.confidence < compute_confidence([scored[1].inputs EXCEPT !.required_regeneration = FALSE])

\* C25: when the answer generate_multi_doc_answer accepts is a pure refusal (the validator
\* took its refusal path: valid=true, no cited pages), compute_confidence is not invoked.
C25_NoConfidenceForRefusal ==
    (/\ pc = "done"
     /\ variant = "multi"
     /\ qa_result.success
     /\ chunks # <<>>
     /\ is_refusal_answer(answer)
     /\ validation.valid
     /\ validation.cited_pages = <<>>)
        => scored = <<>>

\* ------------------------------------------------- follow-up properties
RevenueExchange ==
    /\ conversation # <<>>
    /\ LastOf(conversation, "user") = <<"What", "is", "the", "revenue", "?">>
    /\ LastOf(conversation, "assistant") = <<"Revenue", "was", "strong", ".">>

\* the question with its "it" replaced by the entity
CompareQuestion(entity) == <<"How", "does">> \o entity \o <<"compare", "to", "last", "year", "?">>

\* C26: after the last question "What is the revenue?" and a last answer that mentions
\* "Revenue", every call of resolve_followup("How does it compare to last year?") returns
\* needs_rewrite = true and the question with "it" replaced by the revenue entity, and
\* repeated calls return the same rewritten question.
C26_FollowupResolvesToRevenue ==
    (RevenueExchange /\ followup_question = <<"How", "does", "it", "compare", "to", "last", "year", "?">>) =>
        /\ \A i \in 1 .. Len(resolved) :
              /\ resolved[i].needs_rewrite
              /\ LowerText(resolved[i].rewritten_question) = LowerText(CompareQuestion(<<"revenue">>))
        /\ \A i, j \in 1 .. Len(resolved) :
              resolved[i].rewritten_question = resolved[j].rewritten_question

\* C27: resolve_followup returns the question unchanged with needs_rewrite = false when the
\* conversation has no messages or the question matches no coreference pattern, and in every
\* result needs_rewrite is true exactly when the rewritten question differs from the question.
C27_RewriteFlagIffDifferent ==
    \A i \in 1 .. Len(resolved) :
        /\ (conversation = <<>> \/ ~needs_coreference_resolution(followup_question)) =>
              /\ resolved[i].rewritten_question = followup_question
              /\ ~resolved[i].needs_rewrite
        /\ resolved[i].needs_rewrite <=> resolved[i].rewritten_question # followup_question

\* a question that matches a pattern and that no rule rewrites has been resolved against a
\* conversation: it came back unchanged, with needs_rewrite = false
C27_Witness ==
    /\ Len(resolved) = MaxCalls
    /\ conversation # <<>>
    /\ needs_coreference_resolution(followup_question)
    /\ resolved[1].rewritten_question = followup_question
    /\ ~resolved[1].needs_rewrite

\* ------------------------------------------------- page-range properties
\* the kinds of the characters, whitespace aside, of the pages numbered lo to hi
KindsOnPages(lo, hi) ==
    UNION {{pages[p].text[k].k : k \in 1 .. Len(pages[p].text)} :
              p \in {q \in 1 .. Len(pages) : pages[q].page_number \in lo .. hi}} \ {"sp", "nl"}

\* C29: the page range of every chunk returned by chunk_document covers the pages its text
\* came from.  If the page of every character of a chunk lies in [page_start, page_end],
\* then every character of the chunk that is no whitespace is a character of some page in
\* that range: that consequence is what is stated here.
C29_PageRangeCoversText ==
    pc = "chunked" =>
        \A i \in 1 .. Len(doc_chunks) :
            \A j \in 1 .. Len(doc_chunks[i].content) :
                ~IsWhitespace(doc_chunks[i].content[j]) =>
                    doc_chunks[i].content[j].k
                        \in KindsOnPages(doc_chunks[i].page_start, doc_chunks[i].page_end)

\* ------------------------------------------------- indexing properties
\* no task is under way, and some task has ended
IndexingEnded ==
    /\ task # <<>>
    /\ \A t \in IndexTasks : task[t].at \in {"idle", "returned", "raised"}
    /\ \E t \in IndexTasks : task[t].at \in {"returned", "raised"}

\* C30: after index_document_task has ended, by a return or by an exception at any step, the
\* chunk ids the vector index holds for the document are the chunk ids committed for it in
\* the relational store, also when two tasks for the document interleave.
C30_VectorIdsMatchCommittedRows == IndexingEnded => vectors = RowIds(chunk_rows)

====
